---- MODULE Spec2Model ----
(***************************************************************************)
(* Model of the png-asistant server (src/unnamed/part_000): the OpenClaw   *)
(* gateway WebSocket client (connectGateway, the request helper, the       *)
(* message / close handlers, the reconnect timer) and POST /api/chat.      *)
(*                                                                         *)
(* Node runs every handler to completion, and the promise callbacks a      *)
(* handler triggers (.catch) run as microtasks before the next handler:    *)
(* one action below is one handler together with those callbacks.          *)
(*                                                                         *)
(* JavaScript strings are sequences of tokens (<<"n1">>, blank <<" ">>,    *)
(* empty <<>>), so that trim() and join('') are computed, not assumed.     *)
(***************************************************************************)
EXTENDS Integers, Sequences, FiniteSets, TLC

\* ---------------------------------------------------------------- bounds
\* close events handled under Spec
MaxCloses == 1
\* close events handled under BackoffSpec: the delay reaches its cap at the
\* fifth consecutive close
MaxBackoffCloses == 6
\* randomUUID() calls (request ids and idempotency keys) under Spec
MaxUuid == 3
\* close events and randomUUID() calls under DeviceSpec: a reconnect, and a
\* connect request on each of the two connections
MaxDeviceCloses == 1
MaxDeviceUuid == 2

\* under ViewersSpec: the pages and the sends of all pages
MaxViewers == 2
MaxSends == 2

\* under SendSpec: the pages, the sends, the close events of each viewer
\* socket and of the gateway sockets
MaxSendViewers == 1
MaxSendSends == 1
MaxViewerCloses == 1
MaxBrowserCloses == 1

\* under both: the randomUUID() calls (two connects and two sends draw
\* six) and the events broadcast before a delta
MaxBrowserUuid == 6
MaxBrowserBcast == 1

\* randomUUID() calls under SignSpec: the connect requests that are signed
MaxSignUuid == 2

\* randomUUID() calls under BackoffSpec
MaxBackoffUuid == 1
\* POST /api/chat calls
MaxCalls == 1
\* requests that request() rejects at once
MaxRefused == 1
\* audio events broadcast under AudioSpec
MaxAudioBcast == 3
\* requests answered under AudioSpec
MaxAudioCalls == 2
\* fs.readFile calls in progress at a time
MaxReads == 1
\* POST /api/chat calls under KeySpec: two acknowledged ones
MaxKeyCalls == 2
\* randomUUID() calls under KeySpec: a connect id, two keys, two chat ids
MaxKeyUuid == 5
\* events broadcast by chat notifications under TokenSpec
MaxTokenBcast == 1
\* events broadcast under ChatSpec
MaxChatBcast == 3
\* POST /api/chat calls under RetrySpec: one refused, one repeated
MaxRetryCalls == 2
\* randomUUID() calls under RetrySpec: a connect id, a key and a chat id
MaxRetryUuid == 3

\* ---------------------------------------------------- program constants
GATEWAY_BACKOFF_MAX == 30000
GATEWAY_BACKOFF_INITIAL == 1000

\* ws readyState values
CONNECTING == 0
OPEN == 1
CLOSING == 2
CLOSED == 3

VARIABLES
    listening,         \* server.listen callback has run
    crashed,           \* an exception escaped a handler: the process is gone
    gatewayWs,         \* 0 (null) or the index in socks of the active socket
    gatewayReady,
    gatewayBackoff,
    gatewayLastNonce,
    socks,             \* every GatewayWs constructed: [readyState, pending]
    timers,            \* delays of the outstanding setTimeout(connectGateway)
    uuid,              \* randomUUID() calls made so far
    promises,          \* request id -> the promise request() returned
    sent,              \* frames written to gateway sockets, in order
    bcast,             \* messages handed to broadcast(), in order
    http,              \* responses of POST /api/chat, in order
    refused,           \* methods of the requests request() rejected at once
    GATEWAY_TOKEN,     \* process.env.OPENCLAW_GATEWAY_TOKEN || ''
    now,               \* what Date.now() returns
    deviceFile,        \* the content of .openclaw-device.json
    writable,          \* fs.writeFileSync of the device file succeeds
    keygen,            \* generateKeyPairSync calls made so far
    lastAudio,         \* null or the audio kept for replay
    watchDebounce,     \* the file names whose debounce timer is armed
    reads,             \* the fs.readFile calls in progress
    disk,              \* the files of the directory, oldest change first
    received,          \* the audio the server was handed last, if any
    closesInARow,      \* the close events since the start or, if later,
                       \* since the connection was last made ready
    notified,          \* the payload of the chat notification the gateway
                       \* sent last, if any
    browsers           \* the pages that are open: each one's viewer socket,
                       \* the events on their way to it, its chat panel and
                       \* its requests to /api/chat

vars == <<listening, crashed, gatewayWs, gatewayReady, gatewayBackoff,
          gatewayLastNonce, socks, timers, uuid, promises, sent, bcast, http,
          refused, GATEWAY_TOKEN, now, deviceFile, writable, keygen,
          lastAudio, watchDebounce, reads, disk, received, closesInARow,
          notified, browsers>>

\* ------------------------------------------------------ JavaScript values
JsStr(s) == [t |-> "string", s |-> s]
JsUndefined == [t |-> "undefined", s |-> <<>>]
JsNull == [t |-> "null", s |-> <<>>]
JsNumber == [t |-> "number", s |-> <<"7">>]

IsBlank(tok) == tok \in {" ", "\t"}

RECURSIVE TrimStart(_)
TrimStart(s) ==
    IF s # <<>> /\ IsBlank(Head(s)) THEN TrimStart(Tail(s)) ELSE s

RECURSIVE TrimEnd(_)
TrimEnd(s) ==
    IF s # <<>> /\ IsBlank(s[Len(s)])
    THEN TrimEnd(SubSeq(s, 1, Len(s) - 1))
    ELSE s

\* String.prototype.trim
Trim(s) == TrimEnd(TrimStart(s))

\* the state of the program as one record, threaded through the handlers
State ==
    [listening |-> listening, crashed |-> crashed, gatewayWs |-> gatewayWs,
     gatewayReady |-> gatewayReady, gatewayBackoff |-> gatewayBackoff,
     gatewayLastNonce |-> gatewayLastNonce, socks |-> socks,
     timers |-> timers, uuid |-> uuid, promises |-> promises, sent |-> sent,
     bcast |-> bcast, http |-> http, refused |-> refused,
     GATEWAY_TOKEN |-> GATEWAY_TOKEN, now |-> now, deviceFile |-> deviceFile,
     writable |-> writable, keygen |-> keygen, lastAudio |-> lastAudio,
     watchDebounce |-> watchDebounce, reads |-> reads, disk |-> disk,
     received |-> received, closesInARow |-> closesInARow,
     notified |-> notified, browsers |-> browsers]

Commit(s) ==
    /\ listening' = s.listening
    /\ crashed' = s.crashed
    /\ gatewayWs' = s.gatewayWs
    /\ gatewayReady' = s.gatewayReady
    /\ gatewayBackoff' = s.gatewayBackoff
    /\ gatewayLastNonce' = s.gatewayLastNonce
    /\ socks' = s.socks
    /\ timers' = s.timers
    /\ uuid' = s.uuid
    /\ promises' = s.promises
    /\ sent' = s.sent
    /\ bcast' = s.bcast
    /\ http' = s.http
    /\ refused' = s.refused
    /\ GATEWAY_TOKEN' = s.GATEWAY_TOKEN
    /\ now' = s.now
    /\ deviceFile' = s.deviceFile
    /\ writable' = s.writable
    /\ keygen' = s.keygen
    /\ lastAudio' = s.lastAudio
    /\ watchDebounce' = s.watchDebounce
    /\ reads' = s.reads
    /\ disk' = s.disk
    /\ received' = s.received
    /\ closesInARow' = s.closesInARow
    /\ notified' = s.notified
    /\ browsers' = s.browsers

\* ------------------------------------------------------------ messages
\* JavaScript truthiness of a value
Truthy(v) ==
    \/ v.t = "string" /\ v.s # <<>>
    \/ v.t \in {"number", "object"}

\* a rejection reason: its .message and what String() makes of it
ErrorOf(message) ==
    [message |-> JsStr(message), str |-> <<"Error: ">> \o message]
\* the error object of a res frame (msg.error)
ResError == [message |-> JsStr(<<"denied">>), str |-> <<"[object Object]">>]
\* the payload object of a res frame (msg.payload)
ResPayload == [message |-> JsUndefined, str |-> <<"[object Object]">>]

\* a part of a content list
Part(t, s, text, value) == [t |-> t, s |-> s, text |-> text, value |-> value]
\* payload.message of a chat notification
MsgVal(t, s, text, isArray, parts) ==
    [t |-> t, s |-> s, text |-> text, isArray |-> isArray, parts |-> parts]
NoMessage == MsgVal("undefined", <<>>, JsUndefined, FALSE, <<>>)

\* payload of an event:chat notification
Payload(obj, state, runId, message, errorMessage, error) ==
    [obj |-> obj, state |-> state, runId |-> runId, message |-> message,
     errorMessage |-> errorMessage, error |-> error]
NoPayload == Payload(FALSE, "", 0, NoMessage, JsUndefined, JsUndefined)

\* an inbound gateway frame after JSON.parse
Frame(type, event, id, ok, ptype, nonce, payload) ==
    [type |-> type, event |-> event, id |-> id, ok |-> ok, ptype |-> ptype,
     nonce |-> nonce, payload |-> payload]
Unparseable == Frame("unparseable", "", 0, FALSE, "", JsUndefined, NoPayload)
NullFrame == Frame("null", "", 0, FALSE, "", JsUndefined, NoPayload)
OtherFrame == Frame("hello", "", 0, FALSE, "", JsUndefined, NoPayload)
\* JSON text of a number and of a string: msg.type is undefined
NumberFrame == Frame("number", "", 0, FALSE, "", JsUndefined, NoPayload)
StringFrame == Frame("string", "", 0, FALSE, "", JsUndefined, NoPayload)
OtherEvent == Frame("event", "tick", 0, FALSE, "", JsUndefined, NoPayload)
Challenge(nonce) ==
    Frame("event", "connect.challenge", 0, FALSE, "", nonce, NoPayload)
Res(id, ok, ptype) == Frame("res", "", id, ok, ptype, JsUndefined, NoPayload)
Chat(payload) == Frame("event", "chat", 0, FALSE, "", JsUndefined, payload)
NoFrame == Frame("", "", 0, FALSE, "", JsUndefined, NoPayload)

\* params of an outbound req frame
Params(nonce, message, key, sessionKey, deliver) ==
    [nonce |-> nonce, message |-> message, idempotencyKey |-> key,
     sessionKey |-> sessionKey, deliver |-> deliver]
SESSION_KEY == <<"agent:main:main">>

\* a message handed to broadcast()
BMsg(type, runId, text, state, error) ==
    [type |-> type, runId |-> runId, text |-> text, state |-> state,
     error |-> error]

\* params of the connect request
ConnectParams(nonce, auth, device, signature, signedAt) ==
    [nonce |-> nonce, message |-> <<>>, idempotencyKey |-> 0,
     sessionKey |-> <<>>, deliver |-> FALSE, auth |-> auth,
     device |-> [id |-> device.id, publicKey |-> device.publicKey,
                 signature |-> signature, signedAt |-> signedAt,
                 nonce |-> nonce]]

\* the content of the device file: whether it exists, whether it is JSON,
\* whether the JSON is an object, and the three fields that are read
DeviceFile(exists, parses, obj, id, publicKey, privateKeyPem) ==
    [exists |-> exists, parses |-> parses, obj |-> obj, id |-> id,
     publicKey |-> publicKey, privateKeyPem |-> privateKeyPem]
NoFile ==
    DeviceFile(FALSE, FALSE, FALSE, JsUndefined, JsUndefined, JsUndefined)

\* lastAudio and the audio message handed to broadcast()
Audio(data, mimeType) == [t |-> "object", data |-> data, mimeType |-> mimeType]
AudioMsg(data, mimeType) ==
    [type |-> "audio", data |-> data, mimeType |-> mimeType]

\* the bytes of an audio the server was handed, or none yet
Bytes(data) == [any |-> TRUE, data |-> data]
NoAudio == [any |-> FALSE, data |-> <<>>]

\* req.file of multer
Upload(present, mimetype, buffer) ==
    [present |-> present, mimetype |-> mimetype, buffer |-> buffer]

\* ------------------------------------------------------- the program
\* Buffer.toString('base64') with the url alphabet, padding removed
b64urlEncode(bytes) == <<"b64url(">> \o bytes \o <<")">>

sha256Hex(buf) == <<"sha256(">> \o buf \o <<")">>

\* the raw public key and the PEM of the k-th generated key pair
PublicKeyRaw(k) == <<"pub", ToString(k)>>
PrivateKeyPem(k) == <<"pem", ToString(k)>>

\* the device and the state it leaves (key counter, device file)
loadOrCreateDevice(s) ==
    LET f == s.deviceFile
    IN  IF /\ f.exists /\ f.parses /\ f.obj
           /\ Truthy(f.id) /\ Truthy(f.publicKey) /\ Truthy(f.privateKeyPem)
        THEN [s |-> s,
              device |-> [id |-> f.id, publicKey |-> f.publicKey,
                          privateKeyPem |-> f.privateKeyPem]]
        ELSE LET k == s.keygen + 1
                 device == [id |-> JsStr(sha256Hex(PublicKeyRaw(k))),
                            publicKey |->
                                JsStr(b64urlEncode(PublicKeyRaw(k))),
                            privateKeyPem |-> JsStr(PrivateKeyPem(k))]
             IN  [s |-> [s EXCEPT
                            !.keygen = k,
                            !.deviceFile =
                                IF s.writable
                                THEN DeviceFile(TRUE, TRUE, TRUE, device.id,
                                                device.publicKey,
                                                device.privateKeyPem)
                                ELSE @],
                  device |-> device]

GATEWAY_CLIENT_ID == <<"gateway-client">>
GATEWAY_CLIENT_MODE == <<"backend">>

\* Array.prototype.join(sep) of a list of strings
RECURSIVE Join(_, _)
Join(list, sep) ==
    IF list = <<>> THEN <<>>
    ELSE IF Len(list) = 1 THEN list[1]
    ELSE list[1] \o <<sep>> \o Join(Tail(list), sep)

Digits == <<"0", "1", "2", "3", "4", "5", "6", "7", "8", "9">>

\* String(n) of a non-negative integer: its decimal digits
RECURSIVE String(_)
String(n) ==
    IF n < 10 THEN <<Digits[n + 1]>>
    ELSE String(n \div 10) \o <<Digits[(n % 10) + 1]>>

\* crypto.sign(null, data, key) of Ed25519: a function of data and key
sign(data, key) == <<"sig(">> \o data \o <<";">> \o key \o <<")">>

\* mutant of signString: the token comes after the nonce
signString_tokenLast(token, device, scopes, nonce, signedAtMs) ==
    Join(<<<<"v2">>, device.id.s, GATEWAY_CLIENT_ID, GATEWAY_CLIENT_MODE,
           <<"operator">>, Join(scopes, ","), String(signedAtMs), nonce,
           token>>, "|")

\* the string signNonce signs, for the scopes in the given order
signString(token, device, scopes, nonce, signedAtMs) ==
    Join(<<<<"v2">>, device.id.s, GATEWAY_CLIENT_ID, GATEWAY_CLIENT_MODE,
           <<"operator">>, Join(scopes, ","), String(signedAtMs), token,
           nonce>>, "|")

SCOPES ==
    <<<<"operator.admin">>, <<"operator.approvals">>, <<"operator.pairing">>>>

signNonce(s, device, nonce, signedAtMs) ==
    LET str == signString(s.GATEWAY_TOKEN, device, SCOPES, nonce, signedAtMs)
    IN  [signatureB64 |-> b64urlEncode(sign(str, device.privateKeyPem.s)),
         signString |-> str]

connectGateway(s) ==
    LET got == loadOrCreateDevice(
                   [s EXCEPT !.gatewayWs = Len(s.socks) + 1,
                             !.gatewayReady = FALSE,
                             !.gatewayLastNonce = JsNull])
    IN  [got.s EXCEPT !.socks = Append(@, [readyState |-> CONNECTING,
                                           pending |-> {},
                                           device |-> got.device])]

\* ws.close() of the ws library: a socket not yet closing starts closing
wsClose(s, c) ==
    IF s.socks[c].readyState \in {CONNECTING, OPEN}
    THEN [s EXCEPT !.socks[c].readyState = CLOSING]
    ELSE s

\* mutant of broadcast: the newest event overtakes the earlier ones
broadcast_prepend(s, message) == [s EXCEPT !.bcast = <<message>> \o @]

\* broadcast(obj): the event is handed to the viewers, after the earlier
\* ones, and sent to every client whose socket is open
broadcast(s, message) ==
    [s EXCEPT
        !.bcast = Append(@, message),
        !.browsers = [v \in DOMAIN @ |->
                         IF @[v].ws = "open"
                         THEN [@[v] EXCEPT !.inbox = Append(@, message)]
                         ELSE @[v]]]

\* mutant of connectCatch: a failed connect also reconnects at once
connectCatch_reconnect(s, c) == connectGateway(wsClose(s, c))

\* mutant of connectCatch: a failed connect leaves the socket as it is
connectCatch_ignore(s, c) == s

\* .catch of sendConnect's request
connectCatch(s, c) == wsClose(s, c)

\* mutant of chatCatch: the event does not carry the idempotency key
chatCatch_noRunId(s, key, err) ==
    broadcast(s, BMsg("chat.error", 0, <<>>, "",
                      IF Truthy(err.message) THEN err.message
                      ELSE JsStr(err.str)))

\* mutant of chatCatch: the event reports the configured token
chatCatch_leak(s, key, err) ==
    broadcast(s, BMsg("chat.error", key, <<>>, "", JsStr(s.GATEWAY_TOKEN)))

\* .catch of /api/chat's request: err?.message || String(err)
chatCatch(s, key, err) ==
    broadcast(s, BMsg("chat.error", key, <<>>, "",
                      IF Truthy(err.message) THEN err.message
                      ELSE JsStr(err.str)))

\* the rejection callback the caller attached to the promise p
runCatch(s, p, err) ==
    IF p.catch = "connect" THEN connectCatch(s, p.conn)
    ELSE IF p.catch = "chat" THEN chatCatch(s, p.key, err)
    ELSE s

\* entry.resolve / entry.reject of a registered request: the call is
\* recorded, and a promise runs its callbacks on the first settlement only
settle(s, id, how, value) ==
    LET p == s.promises[id]
        s1 == [s EXCEPT !.promises[id].outcome =
                            Append(@, [how |-> how, value |-> value])]
    IN  IF p.outcome # <<>> \/ how = "resolve" THEN s1
        ELSE runCatch(s1, p, value)

NotConnected == ErrorOf(<<"gateway not connected">>)

\* gatewayWs.request(method, params), with the caller's .catch
request(s, method, params, catch) ==
    IF s.gatewayWs = 0 \/ s.socks[s.gatewayWs].readyState # OPEN
    THEN runCatch([s EXCEPT !.refused = Append(@, method)], catch,
                  NotConnected)
    ELSE LET id == s.uuid + 1
             c == s.gatewayWs
         IN  [s EXCEPT
                !.uuid = id,
                !.socks[c].pending = @ \cup {id},
                !.promises = @ @@ (id :> [method |-> method,
                                          catch |-> catch.catch,
                                          conn |-> catch.conn,
                                          key |-> catch.key,
                                          outcome |-> <<>>]),
                !.sent = Append(@, [conn |-> c, id |-> id, method |-> method,
                                    params |-> params])]

Catch(kind, conn, key) == [catch |-> kind, conn |-> conn, key |-> key]

sendConnect(s, c, nonce) ==
    LET signedAt == s.now
        device == s.socks[c].device
        signed == signNonce(s, device, nonce.s, signedAt)
    IN  request(s, "connect",
                ConnectParams(nonce,
                              IF s.GATEWAY_TOKEN # <<>>
                              THEN JsStr(s.GATEWAY_TOKEN) ELSE JsUndefined,
                              device, signed.signatureB64, signedAt),
                Catch("connect", c, 0))

\* concatenation of the texts of the parts, in order
RECURSIVE JoinParts(_)
JoinParts(parts) ==
    IF parts = <<>> THEN <<>>
    ELSE LET part == Head(parts)
             txt == IF part.t = "string" THEN part.s
                    ELSE IF part.t = "object" /\ part.text.t = "string"
                         THEN part.text.s
                    ELSE IF part.t = "object" /\ part.value.t = "string"
                         THEN part.value.s
                    ELSE <<>>
         IN  txt \o JoinParts(Tail(parts))

\* mutant of extractTextFromMessage: the content list is looked at before
\* the text field
extractTextFromMessage_contentFirst(message) ==
    IF ~Truthy(message) THEN <<>>
    ELSE IF message.t = "string" THEN message.s
    ELSE IF message.isArray THEN JoinParts(message.parts)
    ELSE IF message.text.t = "string" THEN message.text.s
    ELSE <<>>

extractTextFromMessage(message) ==
    IF ~Truthy(message) THEN <<>>
    ELSE IF message.t = "string" THEN message.s
    ELSE IF message.text.t = "string" THEN message.text.s
    ELSE IF message.isArray THEN JoinParts(message.parts)
    ELSE <<>>

\* mutant of OrElse: the last alternative is never taken
OrElse_noFallback(a, b, c) == IF Truthy(a) THEN a ELSE b

\* a || b || c of JavaScript
OrElse(a, b, c) == IF Truthy(a) THEN a ELSE IF Truthy(b) THEN b ELSE c

\* mutant of handleGatewayChatEvent: a delta is emitted whatever its text
handleGatewayChatEvent_deltaAlways(s, payload) ==
    IF ~payload.obj THEN s
    ELSE IF payload.state = "delta" THEN
        broadcast(s, BMsg("chat.delta", payload.runId,
                          extractTextFromMessage(payload.message), "",
                          JsUndefined))
    ELSE IF payload.state = "final" THEN
        broadcast(s, BMsg("chat.final", payload.runId,
                          extractTextFromMessage(payload.message), "done",
                          JsUndefined))
    ELSE IF payload.state = "error" THEN
        broadcast(s, BMsg("chat.error", payload.runId, <<>>, "",
                          OrElse(payload.errorMessage, payload.error,
                                 JsStr(<<"chat error">>))))
    ELSE IF payload.state = "aborted" THEN
        broadcast(s, BMsg("chat.final", payload.runId,
                          extractTextFromMessage(payload.message), "aborted",
                          JsUndefined))
    ELSE s

\* mutant of handleGatewayChatEvent: an aborted run is reported as done
handleGatewayChatEvent_abortedAsDone(s, payload) ==
    IF ~payload.obj THEN s
    ELSE IF payload.state = "delta" THEN
        LET text == extractTextFromMessage(payload.message)
        IN  IF text # <<>>
            THEN broadcast(s, BMsg("chat.delta", payload.runId, text, "",
                                   JsUndefined))
            ELSE s
    ELSE IF payload.state \in {"final", "aborted"} THEN
        broadcast(s, BMsg("chat.final", payload.runId,
                          extractTextFromMessage(payload.message), "done",
                          JsUndefined))
    ELSE IF payload.state = "error" THEN
        broadcast(s, BMsg("chat.error", payload.runId, <<>>, "",
                          OrElse(payload.errorMessage, payload.error,
                                 JsStr(<<"chat error">>))))
    ELSE s

\* mutant of handleGatewayChatEvent: a state that is not handled ends the
\* run like final
handleGatewayChatEvent_otherAsDone(s, payload) ==
    IF ~payload.obj THEN s
    ELSE IF payload.state = "delta" THEN
        LET text == extractTextFromMessage(payload.message)
        IN  IF text # <<>>
            THEN broadcast(s, BMsg("chat.delta", payload.runId, text, "",
                                   JsUndefined))
            ELSE s
    ELSE IF payload.state = "error" THEN
        broadcast(s, BMsg("chat.error", payload.runId, <<>>, "",
                          OrElse(payload.errorMessage, payload.error,
                                 JsStr(<<"chat error">>))))
    ELSE IF payload.state = "aborted" THEN
        broadcast(s, BMsg("chat.final", payload.runId,
                          extractTextFromMessage(payload.message), "aborted",
                          JsUndefined))
    ELSE broadcast(s, BMsg("chat.final", payload.runId,
                           extractTextFromMessage(payload.message), "done",
                           JsUndefined))

handleGatewayChatEvent(s, payload) ==
    IF ~payload.obj THEN s
    ELSE IF payload.state = "delta" THEN
        LET text == extractTextFromMessage(payload.message)
        IN  IF text # <<>>
            THEN broadcast(s, BMsg("chat.delta", payload.runId, text, "",
                                   JsUndefined))
            ELSE s
    ELSE IF payload.state = "final" THEN
        broadcast(s, BMsg("chat.final", payload.runId,
                          extractTextFromMessage(payload.message), "done",
                          JsUndefined))
    ELSE IF payload.state = "error" THEN
        broadcast(s, BMsg("chat.error", payload.runId, <<>>, "",
                          OrElse(payload.errorMessage, payload.error,
                                 JsStr(<<"chat error">>))))
    ELSE IF payload.state = "aborted" THEN
        broadcast(s, BMsg("chat.final", payload.runId,
                          extractTextFromMessage(payload.message), "aborted",
                          JsUndefined))
    ELSE s

\* ws.on('open'): the handler only logs; the socket is OPEN from here on
onOpen(s, c) == [s EXCEPT !.socks[c].readyState = OPEN]

\* mutant of onChallenge: the nonce is not checked for blank
onChallenge_noTrim(s, c, msg) ==
    LET nonce == msg.nonce
    IN  IF nonce.t = "string" /\ nonce.s # <<>>
        THEN sendConnect([s EXCEPT !.gatewayLastNonce = nonce], c, nonce)
        ELSE s

\* the connect.challenge branch of ws.on('message')
onChallenge(s, c, msg) ==
    LET nonce == msg.nonce
    IN  IF nonce.t = "string" /\ Trim(nonce.s) # <<>>
        THEN sendConnect([s EXCEPT !.gatewayLastNonce = nonce], c, nonce)
        ELSE s

\* mutant of onRes: the entry stays in the registry
onRes_keepEntry(s, c, msg) ==
    LET s1 == IF msg.id \in s.socks[c].pending
              THEN settle(s, msg.id,
                          IF msg.ok THEN "resolve" ELSE "reject",
                          IF msg.ok THEN ResPayload ELSE ResError)
              ELSE s
    IN  IF msg.ok /\ msg.ptype = "hello-ok"
        THEN [s1 EXCEPT !.gatewayReady = TRUE,
                        !.gatewayBackoff = GATEWAY_BACKOFF_INITIAL]
        ELSE s1

\* mutant of onRes: a hello-ok response does not make the connection ready
onRes_noReady(s, c, msg) ==
    IF msg.id \in s.socks[c].pending
    THEN settle([s EXCEPT !.socks[c].pending = @ \ {msg.id}], msg.id,
                IF msg.ok THEN "resolve" ELSE "reject",
                IF msg.ok THEN ResPayload ELSE ResError)
    ELSE s

\* mutant of onRes: a failure response also closes the socket
onRes_closeOnError(s, c, msg) ==
    LET s1 == IF msg.id \in s.socks[c].pending
              THEN settle([s EXCEPT !.socks[c].pending = @ \ {msg.id}],
                          msg.id,
                          IF msg.ok THEN "resolve" ELSE "reject",
                          IF msg.ok THEN ResPayload ELSE ResError)
              ELSE s
    IN  IF msg.ok /\ msg.ptype = "hello-ok"
        THEN [s1 EXCEPT !.gatewayReady = TRUE,
                        !.gatewayBackoff = GATEWAY_BACKOFF_INITIAL]
        ELSE IF ~msg.ok THEN wsClose(s1, c)
        ELSE s1

\* the res branch of ws.on('message')
onRes(s, c, msg) ==
    LET s1 == IF msg.id \in s.socks[c].pending
              THEN settle([s EXCEPT !.socks[c].pending = @ \ {msg.id}],
                          msg.id,
                          IF msg.ok THEN "resolve" ELSE "reject",
                          IF msg.ok THEN ResPayload ELSE ResError)
              ELSE s
    IN  IF msg.ok /\ msg.ptype = "hello-ok"
        THEN [s1 EXCEPT !.gatewayReady = TRUE,
                        !.gatewayBackoff = GATEWAY_BACKOFF_INITIAL]
        ELSE s1

\* ws.on('message') of the socket c
onMessage(s, c, msg) ==
    IF msg.type = "unparseable" THEN s
    ELSE IF msg.type = "null" THEN [s EXCEPT !.crashed = TRUE]
    ELSE IF msg.type = "event" THEN
        IF msg.event = "connect.challenge" THEN onChallenge(s, c, msg)
        ELSE IF msg.event = "chat"
             THEN handleGatewayChatEvent(s, msg.payload)
        ELSE s
    ELSE IF msg.type = "res" THEN onRes(s, c, msg)
    ELSE s

Min(a, b) == IF a <= b THEN a ELSE b

ClosedError(code) == ErrorOf(<<"gateway closed (", ToString(code), ")">>)

\* mutant of rejectAll: the loop stops after the first entry
rejectAll_first(s, ids, err) ==
    IF ids = {} THEN s
    ELSE settle(s, CHOOSE i \in ids : \A j \in ids : i <= j, "reject", err)

\* for (const { reject } of pending.values()) reject(...): in insertion
\* order, which is the order of the ids
RECURSIVE rejectAll(_, _, _)
rejectAll(s, ids, err) ==
    IF ids = {} THEN s
    ELSE LET id == CHOOSE i \in ids : \A j \in ids : i <= j
         IN  rejectAll(settle(s, id, "reject", err), ids \ {id}, err)

\* mutant of onClose: no reconnect once the delay has reached the cap
onClose_giveUp(s, c, code) ==
    LET s1 == rejectAll([s EXCEPT !.socks[c].readyState = CLOSED],
                        s.socks[c].pending, ClosedError(code))
    IN  [s1 EXCEPT
            !.socks[c].pending = {},
            !.gatewayReady = FALSE,
            !.gatewayWs = 0,
            !.gatewayBackoff = Min(s.gatewayBackoff * 2, GATEWAY_BACKOFF_MAX),
            !.timers = IF s.gatewayBackoff >= GATEWAY_BACKOFF_MAX THEN @
                       ELSE Append(@, s.gatewayBackoff)]

\* mutant of onClose: the delay doubles without the cap
onClose_uncapped(s, c, code) ==
    LET s1 == rejectAll([s EXCEPT !.socks[c].readyState = CLOSED],
                        s.socks[c].pending, ClosedError(code))
    IN  [s1 EXCEPT
            !.socks[c].pending = {},
            !.gatewayReady = FALSE,
            !.gatewayWs = 0,
            !.gatewayBackoff = s.gatewayBackoff * 2,
            !.timers = Append(@, s.gatewayBackoff)]

\* mutant of onClose: the delay grows by the initial delay
onClose_linear(s, c, code) ==
    LET s1 == rejectAll([s EXCEPT !.socks[c].readyState = CLOSED],
                        s.socks[c].pending, ClosedError(code))
    IN  [s1 EXCEPT
            !.socks[c].pending = {},
            !.gatewayReady = FALSE,
            !.gatewayWs = 0,
            !.gatewayBackoff = Min(s.gatewayBackoff + GATEWAY_BACKOFF_INITIAL,
                                   GATEWAY_BACKOFF_MAX),
            !.timers = Append(@, s.gatewayBackoff)]

\* ws.on('close') of the socket c
onClose(s, c, code) ==
    LET s1 == rejectAll([s EXCEPT !.socks[c].readyState = CLOSED],
                        s.socks[c].pending, ClosedError(code))
    IN  [s1 EXCEPT
            !.socks[c].pending = {},
            !.gatewayReady = FALSE,
            !.gatewayWs = 0,
            !.gatewayBackoff = Min(s.gatewayBackoff * 2, GATEWAY_BACKOFF_MAX),
            !.timers = Append(@, s.gatewayBackoff)]

respond(s, status, key) ==
    [s EXCEPT !.http = Append(@, [status |-> status, idempotencyKey |-> key])]

\* Buffer.toString('base64')
base64(buf) == <<"base64(">> \o buf \o <<")">>

\* String.prototype.toLowerCase, on the extensions that occur
toLowerCase(tok) ==
    IF tok = ".MP3" THEN ".mp3" ELSE IF tok = ".WAV" THEN ".wav" ELSE tok

\* path.extname(filename).toLowerCase(): a name is its stem and extension
extname(filename) == toLowerCase(filename[Len(filename)])

AUDIO_EXTENSIONS == {".mp3", ".wav", ".ogg"}

\* MIME_MAP[ext] || 'audio/mpeg'
MIME_MAP(ext) ==
    IF ext = ".mp3" THEN "audio/mpeg"
    ELSE IF ext = ".wav" THEN "audio/wav"
    ELSE IF ext = ".ogg" THEN "audio/ogg"
    ELSE "audio/mpeg"

\* what reading the file gives: its bytes, or an error if it is not there
FileData(d, filename) ==
    IF \E i \in DOMAIN d : d[i].name = filename
    THEN [err |-> FALSE,
          data |-> d[CHOOSE i \in DOMAIN d : d[i].name = filename].data]
    ELSE [err |-> TRUE, data |-> <<>>]

\* app.post('/api/speak')
apiSpeak(s, file) ==
    IF ~file.present THEN respond(s, 400, 0)
    ELSE LET mimeType == IF file.mimetype # "" THEN file.mimetype
                         ELSE "audio/wav"
             data == base64(file.buffer)
         IN  respond(broadcast([s EXCEPT !.lastAudio = Audio(data, mimeType)],
                               AudioMsg(data, mimeType)),
                     200, 0)

\* app.get('/api/replay')
apiReplay(s) ==
    IF ~Truthy(s.lastAudio) THEN respond(s, 404, 0)
    ELSE respond(broadcast(s, AudioMsg(s.lastAudio.data,
                                       s.lastAudio.mimeType)),
                 200, 0)

\* the fs.watch callback: the debounce timer of the name is set anew
onWatch(s, filename) ==
    IF extname(filename) \notin AUDIO_EXTENSIONS THEN s
    ELSE [s EXCEPT !.watchDebounce = @ \cup {filename}]

\* the debounce timer of the name fires: fs.readFile is started
onWatchTimer(s, filename) ==
    [s EXCEPT !.watchDebounce = @ \ {filename},
              !.reads = Append(@, [name |-> filename,
                                   ext |-> extname(filename),
                                   began |-> FileData(s.disk, filename)])]

\* mutant of onReadFile: the file is broadcast but not kept for replay
onReadFile_notKept(s, ext, result) ==
    IF result.err THEN s
    ELSE broadcast(s, AudioMsg(base64(result.data), MIME_MAP(ext)))

\* the fs.readFile callback
onReadFile(s, ext, result) ==
    IF result.err THEN s
    ELSE LET mimeType == MIME_MAP(ext)
             data == base64(result.data)
         IN  broadcast([s EXCEPT !.lastAudio = Audio(data, mimeType)],
                       AudioMsg(data, mimeType))

\* the audio files of the directory, the most recently modified first
RECURSIVE latestFirst(_)
latestFirst(d) ==
    IF d = <<>> THEN <<>>
    ELSE LET f == d[Len(d)]
             rest == latestFirst(SubSeq(d, 1, Len(d) - 1))
         IN  IF extname(f.name) \in AUDIO_EXTENSIONS THEN <<f>> \o rest
             ELSE rest

loadLatestAudioFile(s) ==
    LET files == latestFirst(s.disk)
    IN  IF files = <<>> THEN s
        ELSE [s EXCEPT !.lastAudio =
                          Audio(base64(files[1].data),
                                MIME_MAP(extname(files[1].name)))]

\* mutant of apiChat: the gateway is not checked for being ready
apiChat_noReadyCheck(s, text) ==
    IF ~Truthy(text) \/ text.t # "string" \/ Trim(text.s) = <<>>
    THEN respond(s, 400, 0)
    ELSE IF s.gatewayWs = 0
    THEN respond(s, 503, 0)
    ELSE LET key == s.uuid + 1
         IN  respond(request([s EXCEPT !.uuid = key], "chat.send",
                             Params(JsUndefined, Trim(text.s), key,
                                    SESSION_KEY, FALSE),
                             Catch("chat", 0, key)),
                     200, key)

\* mutant of apiChat: the acknowledgement names another key than the frame
apiChat_otherKey(s, text) ==
    IF ~Truthy(text) \/ text.t # "string" \/ Trim(text.s) = <<>>
    THEN respond(s, 400, 0)
    ELSE IF ~s.gatewayReady \/ s.gatewayWs = 0
    THEN respond(s, 503, 0)
    ELSE LET key == s.uuid + 1
         IN  respond(request([s EXCEPT !.uuid = key], "chat.send",
                             Params(JsUndefined, Trim(text.s), 0,
                                    SESSION_KEY, FALSE),
                             Catch("chat", 0, key)),
                     200, key)

\* app.post('/api/chat')
apiChat(s, text) ==
    IF ~Truthy(text) \/ text.t # "string" \/ Trim(text.s) = <<>>
    THEN respond(s, 400, 0)
    ELSE IF ~s.gatewayReady \/ s.gatewayWs = 0
    THEN respond(s, 503, 0)
    ELSE LET key == s.uuid + 1
         IN  respond(request([s EXCEPT !.uuid = key], "chat.send",
                             Params(JsUndefined, Trim(text.s), key,
                                    SESSION_KEY, FALSE),
                             Catch("chat", 0, key)),
                     200, key)

\* ------------------------------------------------- the page (app.js)
\* an assistant entry of the transcript as appendChatEntry makes it; run
\* and applied are kept by the environment: the key /api/chat returned for
\* the send that made the entry, and the runIds of the events used on it
NewEntry ==
    [text |-> <<>>, streaming |-> TRUE, error |-> FALSE, runId |-> 0,
     run |-> 0, applied |-> <<>>]

\* a page when its script has run: the controls are enabled, no entry is
\* active and connectWebSocket() was called; closes counts the close
\* events of its sockets
NewPage ==
    [ws |-> "connecting", inbox |-> <<>>, activeAssistantContent |-> 0,
     enabled |-> TRUE, entries |-> <<>>, fetches |-> <<>>, closes |-> 0]

\* finishAssistantEntry(finalText, isError) in the page b
finishAssistantEntry(b, finalText, isError) ==
    IF b.activeAssistantContent = 0 THEN b
    ELSE [b EXCEPT
            !.entries[b.activeAssistantContent] =
                [@ EXCEPT !.streaming = FALSE,
                          !.text = IF finalText.t = "null" THEN @
                                   ELSE finalText.s,
                          !.error = @ \/ isError],
            !.activeAssistantContent = 0,
            !.enabled = TRUE]

\* handleChatEvent(msg) in the page b
handleChatEvent(b, msg) ==
    IF b.activeAssistantContent = 0 THEN b
    ELSE IF msg.type = "chat.delta" THEN
        [b EXCEPT !.entries[b.activeAssistantContent].text = @ \o msg.text]
    ELSE IF msg.type = "chat.final" THEN
        finishAssistantEntry(
            [b EXCEPT !.entries[b.activeAssistantContent].runId =
                          IF msg.runId # 0 THEN msg.runId ELSE @],
            JsStr(msg.text), FALSE)
    ELSE IF msg.type = "chat.error" THEN
        finishAssistantEntry(
            b,
            JsStr(<<"[Error: ">>
                  \o (IF Truthy(msg.error) THEN msg.error.s
                      ELSE <<"unknown gateway error">>)
                  \o <<"]">>),
            TRUE)
    ELSE b

\* the message listener of the viewer socket
onViewerMessage(b, msg) ==
    IF msg.type \in {"chat.delta", "chat.final", "chat.error"}
    THEN handleChatEvent(b, msg)
    ELSE b

\* sendChatMessage() with the value of the input, up to its await
sendChatMessage(b, value) ==
    IF Trim(value) = <<>> THEN b
    ELSE [b EXCEPT
            !.entries = Append(@, NewEntry),
            !.activeAssistantContent = Len(b.entries) + 1,
            !.enabled = FALSE,
            !.fetches = Append(@, [st |-> "requested", text |-> Trim(value),
                                   entry |-> Len(b.entries) + 1,
                                   status |-> 0])]

\* sendChatMessage() after its await, with the status of the response;
\* the text shown is data.error if the response has one
afterFetch(b, status) ==
    IF status # 200
    THEN finishAssistantEntry(b, JsStr(<<"[Error: ", "server error", "]">>),
                              TRUE)
    ELSE b

\* ------------------------------------------------------------- inputs
\* connect requests written to the socket c so far
ConnectsOn(c) == {i \in DOMAIN sent : sent[i].conn = c /\ sent[i].method = "connect"}

\* the gateway draws a new nonce for every challenge it issues on a
\* connection; the later ones begin with a blank, which trim() drops
FreshNonce(c) ==
    LET k == Cardinality(ConnectsOn(c)) + 1
    IN  IF k = 1 THEN JsStr(<<"n1">>) ELSE JsStr(<<" ", "n", ToString(k)>>)

\* the nonce of a challenge: a new one, blank, missing, or not a string
Nonces(c) == {FreshNonce(c), JsStr(<<" ">>), JsUndefined, JsNumber}

Texts == {JsStr(<<"hi", " ">>), JsStr(<<" ">>), JsUndefined}
CloseCodes == {1006}

IsChallenge(msg) == msg.type = "event" /\ msg.event = "connect.challenge"

\* the ids a res frame may carry: every request id issued so far, and 0,
\* an id that was never issued
ResIds == {0} \cup DOMAIN promises

\* the frames the gateway may deliver next on the socket c: challenges,
\* responses, and frames of neither shape
Inbound(c) ==
    {Unparseable, OtherFrame, OtherEvent}
    \cup {Challenge(n) : n \in Nonces(c)}
    \cup {Res(id, ok, ptype) : id \in ResIds, ok \in BOOLEAN,
                               ptype \in {"hello-ok", "other"}}

\* the frames of a handshake, and the frame that is JSON null
InboundHandshake(c) ==
    {Challenge(FreshNonce(c)), NullFrame}
    \cup {Res(id, ok, "hello-ok") : id \in ResIds, ok \in BOOLEAN}

Live(c) == socks[c].readyState # CLOSED

\* ------------------------------------------------------------ actions
\* the module-level state when the script has been loaded
Boot ==
    /\ listening = FALSE
    /\ crashed = FALSE
    /\ gatewayWs = 0
    /\ gatewayReady = FALSE
    /\ gatewayBackoff = GATEWAY_BACKOFF_INITIAL
    /\ gatewayLastNonce = JsNull
    /\ socks = <<>>
    /\ timers = <<>>
    /\ uuid = 0
    /\ promises = <<>>
    /\ sent = <<>>
    /\ bcast = <<>>
    /\ http = <<>>
    /\ refused = <<>>
    /\ keygen = 0
    /\ lastAudio = JsNull
    /\ watchDebounce = {}
    /\ reads = <<>>
    /\ received = NoAudio
    /\ closesInARow = 0
    /\ notified = <<>>
    /\ browsers = <<>>

\* a first start: a token is configured, no device file exists yet and the
\* directory can be written
Init ==
    /\ Boot
    /\ GATEWAY_TOKEN = <<"tokA">>
    /\ now = 7
    /\ deviceFile = NoFile
    /\ writable = TRUE
    /\ disk = <<>>

\* the server.listen callback
Listen ==
    /\ ~listening /\ ~crashed
    /\ Commit(connectGateway(loadLatestAudioFile(
           [State EXCEPT !.listening = TRUE,
                         !.received = IF latestFirst(disk) = <<>> THEN @
                                      ELSE Bytes(latestFirst(disk)[1].data)])))

\* the socket c opens
OpenStep(c) ==
    /\ ~crashed
    /\ socks[c].readyState = CONNECTING
    /\ Commit(onOpen(State, c))

GatewayOpen == \E c \in DOMAIN socks : OpenStep(c)

\* the frame msg arrives on the socket c (a challenge only while fewer
\* than cap ids have been drawn and fewer than MaxRefused requests refused)
MessageStep(c, msg, cap) ==
    /\ ~crashed
    /\ socks[c].readyState \in {OPEN, CLOSING}
    /\ IsChallenge(msg) => uuid < cap /\ Len(refused) < MaxRefused
    /\ LET s == onMessage(State, c, msg)
       IN  Commit([s EXCEPT
                     !.closesInARow = IF s.gatewayReady THEN 0 ELSE @,
                     !.notified = IF msg.type = "event" /\ msg.event = "chat"
                                  THEN <<msg.payload>> ELSE @])

GatewayMessage ==
    \E c \in DOMAIN socks : \E msg \in Inbound(c) : MessageStep(c, msg, MaxUuid)

HandshakeMessage ==
    \E c \in DOMAIN socks :
        \E msg \in InboundHandshake(c) : MessageStep(c, msg, MaxBackoffUuid)

\* the socket c closes with the code
CloseStep(c, code) ==
    /\ ~crashed
    /\ Live(c)
    /\ Commit(onClose([State EXCEPT !.closesInARow = @ + 1], c, code))

GatewayClose ==
    \E c \in DOMAIN socks, code \in CloseCodes :
        Len(socks) <= MaxCloses /\ CloseStep(c, code)

GatewayCloseDeep ==
    \E c \in DOMAIN socks, code \in CloseCodes :
        Len(socks) <= MaxBackoffCloses /\ CloseStep(c, code)

\* the i-th outstanding setTimeout(connectGateway, delay) fires
TimerStep(i) ==
    /\ ~crashed
    /\ Commit(connectGateway(
           [State EXCEPT !.timers = SubSeq(timers, 1, i - 1)
                                      \o SubSeq(timers, i + 1, Len(timers))]))

ReconnectTimer == \E i \in DOMAIN timers : TimerStep(i)

\* POST /api/chat with the body {text}
ChatStep(text) ==
    /\ listening /\ ~crashed
    /\ Len(http) < MaxCalls
    /\ uuid + 2 <= MaxUuid
    /\ Len(refused) < MaxRefused
    /\ Commit(apiChat(State, text))

ApiChat == \E text \in Texts : ChatStep(text)

Next ==
    \/ Listen
    \/ GatewayOpen
    \/ GatewayMessage
    \/ GatewayClose
    \/ ReconnectTimer
    \/ ApiChat

Spec == Init /\ [][Next]_vars

\* a caller other than /api/chat uses the exposed helper: gatewayWs.request
\* is called with the method while a socket is active
HelperStep(method) ==
    /\ listening /\ ~crashed
    /\ gatewayWs # 0
    /\ uuid < MaxUuid
    /\ Len(refused) < MaxRefused
    /\ Commit(request(State, method, Params(JsUndefined, <<"hi">>, 0,
                                            SESSION_KEY, FALSE),
                      Catch("none", 0, 0)))

HelperCall == \E method \in {"chat.send", "chat.history"} : HelperStep(method)

NextHelper ==
    \/ Listen
    \/ GatewayOpen
    \/ GatewayMessage
    \/ GatewayClose
    \/ ReconnectTimer
    \/ HelperCall

HelperSpec == Init /\ [][NextHelper]_vars

\* the handshake and the reconnect loop alone, over more closes
NextBackoff ==
    \/ Listen
    \/ GatewayOpen
    \/ HandshakeMessage
    \/ GatewayCloseDeep
    \/ ReconnectTimer

BackoffSpec == Init /\ [][NextBackoff]_vars

\* the event loop runs a timer that is due
LiveSpec == BackoffSpec /\ WF_vars(ReconnectTimer)

\* the frames of a handshake and of the responses to requests
InboundRetry(c) ==
    {Challenge(FreshNonce(c))}
    \cup {Res(id, ok, "hello-ok") : id \in ResIds, ok \in BOOLEAN}

RetryMessage ==
    \E c \in DOMAIN socks :
        \E msg \in InboundRetry(c) : MessageStep(c, msg, MaxRetryUuid)

\* POST /api/chat with the body {text}, up to MaxRetryCalls calls
RetryStep(text) ==
    /\ listening /\ ~crashed
    /\ Len(http) < MaxRetryCalls
    /\ uuid + 2 <= MaxRetryUuid
    /\ Len(refused) < MaxRefused
    /\ Commit(apiChat(State, text))

ApiChatRetry == \E text \in Texts : RetryStep(text)

\* a client that repeats its call: the handshake, the responses, the
\* reconnect loop and several POST /api/chat
NextRetry ==
    \/ Listen
    \/ GatewayOpen
    \/ RetryMessage
    \/ GatewayClose
    \/ ReconnectTimer
    \/ ApiChatRetry

RetrySpec == Init /\ [][NextRetry]_vars

\* frames that are not JSON, or JSON that is neither an event nor a res
Malformed == {Unparseable, NullFrame, NumberFrame, StringFrame, OtherFrame}

MalformedMessage ==
    \E c \in DOMAIN socks :
        \E msg \in Malformed : MessageStep(c, msg, MaxUuid)

\* the gateway client fed malformed frames among the others
NextFrame ==
    \/ Listen
    \/ GatewayOpen
    \/ GatewayMessage
    \/ MalformedMessage
    \/ GatewayClose
    \/ ReconnectTimer

FrameSpec == Init /\ [][NextFrame]_vars

\* payload.message of a chat notification: a string, an object with a text,
\* an object with a content list, an empty string, none
ChatMessages ==
    {MsgVal("string", <<"a">>, JsUndefined, FALSE, <<>>),
     MsgVal("object", <<>>, JsStr(<<"b">>), FALSE, <<>>),
     MsgVal("object", <<>>, JsUndefined, TRUE,
            <<Part("object", <<>>, JsStr(<<"c">>), JsUndefined),
              Part("string", <<"d">>, JsUndefined, JsUndefined),
              Part("object", <<>>, JsUndefined, JsUndefined)>>),
     MsgVal("string", <<>>, JsUndefined, FALSE, <<>>),
     NoMessage}

\* the run the notifications belong to
RunIds == {1}

\* payloads of event:chat frames: the four handled states with every
\* message, the error state with and without its two message fields, a
\* state that is not handled, and a payload that is no object
ChatPayloads ==
    {Payload(TRUE, st, r, m, JsUndefined, JsUndefined) :
        st \in {"delta", "final", "aborted"}, r \in RunIds,
        m \in ChatMessages}
    \cup {Payload(TRUE, "error", r, NoMessage, em, e) :
        r \in RunIds,
        em \in {JsUndefined, JsStr(<<>>), JsStr(<<"boom">>)},
        e \in {JsUndefined, JsNull, JsStr(<<"bad">>)}}
    \cup {Payload(TRUE, st, r, NoMessage, JsUndefined, JsUndefined) :
        st \in {"started", ""}, r \in RunIds}
    \cup {NoPayload}

\* the chat notification with the payload p arrives on the socket c
NotifyStep(c, p) ==
    /\ Len(bcast) < MaxChatBcast
    /\ MessageStep(c, Chat(p), MaxUuid)

ChatNotification ==
    \E c \in DOMAIN socks : \E p \in ChatPayloads : NotifyStep(c, p)

\* the gateway streams chat notifications on an open socket
NextChat ==
    \/ Listen
    \/ GatewayOpen
    \/ ChatNotification

ChatSpec == Init /\ [][NextChat]_vars

\* the parts of a content list: strings, objects with a text field, a value
\* field, both or neither (the text being a string, empty or not, or a
\* number), null and a number
PartShapes ==
    {Part("string", <<"d">>, JsUndefined, JsUndefined),
     Part("string", <<>>, JsUndefined, JsUndefined),
     Part("null", <<>>, JsUndefined, JsUndefined),
     Part("number", <<>>, JsUndefined, JsUndefined)}
    \cup {Part("object", <<>>, text, value) :
            text \in {JsUndefined, JsNumber, JsStr(<<>>), JsStr(<<"c">>)},
            value \in {JsUndefined, JsNumber, JsStr(<<"v">>)}}

\* the content lists of no part, one part, two and three parts
ContentLists ==
    {<<>>}
    \cup {<<p>> : p \in PartShapes}
    \cup {<<p, q>> : p \in PartShapes, q \in PartShapes}
    \cup {<<p, q, r>> : p \in PartShapes,
                        q \in {Part("string", <<"d">>, JsUndefined, JsUndefined),
                               Part("object", <<>>, JsNumber, JsStr(<<"v">>))},
                        r \in PartShapes}

\* payload.message: absent, null, a number, a string, and an object with
\* or without a text field and with a content that is a list, or is none
\* (isArray false: content absent, or a string)
MessageShapes ==
    {NoMessage,
     MsgVal("null", <<>>, JsUndefined, FALSE, <<>>),
     MsgVal("number", <<>>, JsUndefined, FALSE, <<>>),
     MsgVal("string", <<>>, JsUndefined, FALSE, <<>>),
     MsgVal("string", <<"a">>, JsUndefined, FALSE, <<>>)}
    \cup {MsgVal("object", <<>>, text, FALSE, <<>>) :
            text \in {JsUndefined, JsNumber, JsStr(<<>>), JsStr(<<"b">>)}}
    \cup {MsgVal("object", <<>>, text, TRUE, parts) :
            text \in {JsUndefined, JsNumber}, parts \in ContentLists}
    \cup {MsgVal("object", <<>>, text, TRUE, parts) :
            text \in {JsStr(<<>>), JsStr(<<"b">>)},
            parts \in {<<>>, <<Part("string", <<"d">>, JsUndefined,
                                    JsUndefined)>>}}

\* the first chat notification of a run: a delta, a final or an aborted
\* with the message
ExtractStep(c, st, message) ==
    /\ notified = <<>>
    /\ MessageStep(c, Chat(Payload(TRUE, st, 1, message, JsUndefined,
                                   JsUndefined)), MaxUuid)

ExtractNotification ==
    \E c \in DOMAIN socks, st \in {"delta", "final", "aborted"} :
        \E message \in MessageShapes : ExtractStep(c, st, message)

NextExtract ==
    \/ Listen
    \/ GatewayOpen
    \/ ExtractNotification

\* one chat notification for every shape of message
ExtractSpec == Init /\ [][NextExtract]_vars

\* the values OPENCLAW_GATEWAY_TOKEN may be configured with: unset, or set
Tokens == {<<>>, <<"tokA">>}

\* the values Date.now() returns, in milliseconds
Times == {7, 10, 1700000000, 1700000001}

\* the nonces of the challenges; the gateway may repeat one
SignNonces == {JsStr(<<"n1">>), JsStr(<<"n2">>)}

InitSign ==
    /\ Boot
    /\ GATEWAY_TOKEN \in Tokens
    /\ now \in Times
    /\ deviceFile = NoFile
    /\ writable = TRUE
    /\ disk = <<>>

\* time passes
Tick == \E time \in Times : time > now /\ Commit([State EXCEPT !.now = time])

\* a challenge arrives on the socket c
SignStep(c, nonce) == MessageStep(c, Challenge(nonce), MaxSignUuid)

SignChallenge == \E c \in DOMAIN socks, nonce \in SignNonces : SignStep(c, nonce)

NextSign ==
    \/ Listen
    \/ GatewayOpen
    \/ Tick
    \/ SignChallenge

\* one connection that is challenged at several times
SignSpec == InitSign /\ [][NextSign]_vars

\* a page is opened, while fewer than cap are
PageLoadStep(cap) ==
    /\ listening /\ ~crashed
    /\ Len(browsers) < cap
    /\ Commit([State EXCEPT !.browsers = Append(@, NewPage)])

PageLoad == PageLoadStep(MaxViewers)

\* the viewer socket of the page v opens: the server adds it to clients
ViewerOpenStep(v) ==
    /\ listening /\ ~crashed
    /\ browsers[v].ws = "connecting"
    /\ Commit([State EXCEPT !.browsers[v].ws = "open"])

ViewerOpen == \E v \in DOMAIN browsers : ViewerOpenStep(v)

\* the viewer socket of the page v closes: the events on their way are
\* lost, the server removes the client and the page sets its 3 s timer
ViewerCloseStep(v) ==
    /\ browsers[v].ws = "open"
    /\ browsers[v].closes < MaxViewerCloses
    /\ Commit([State EXCEPT !.browsers[v].ws = "waiting",
                            !.browsers[v].inbox = <<>>,
                            !.browsers[v].closes = @ + 1])

ViewerClose == \E v \in DOMAIN browsers : ViewerCloseStep(v)

\* the 3 s timer of the page v fires: connectWebSocket()
ViewerTimerStep(v) ==
    /\ browsers[v].ws = "waiting"
    /\ Commit([State EXCEPT !.browsers[v].ws = "connecting"])

ViewerTimer == \E v \in DOMAIN browsers : ViewerTimerStep(v)

\* the next event on its way reaches the page v; an event that changes
\* the page was used on the entry that was active
ViewerMessageStep(v) ==
    /\ browsers[v].inbox # <<>>
    /\ LET msg == Head(browsers[v].inbox)
           b == [browsers[v] EXCEPT !.inbox = Tail(@)]
           b1 == onViewerMessage(b, msg)
       IN  Commit([State EXCEPT
                     !.browsers[v] =
                         IF b1 = b THEN b
                         ELSE [b1 EXCEPT
                                 !.entries[b.activeAssistantContent].applied =
                                     Append(@, msg.runId)]])

ViewerMessage == \E v \in DOMAIN browsers : ViewerMessageStep(v)

\* the sends made in all pages so far: the page and the entry of each
Sends ==
    UNION {{<<v, n>> : n \in 1..Len(browsers[v].entries)} :
              v \in DOMAIN browsers}

\* the user of the page v sends a message (the controls are enabled),
\* while fewer than cap sends were made
SendStep(v, cap) ==
    /\ browsers[v].enabled
    /\ Cardinality(Sends) < cap
    /\ Commit([State EXCEPT !.browsers[v] = sendChatMessage(@, <<"hi">>)])

Send == \E v \in DOMAIN browsers : SendStep(v, MaxSends)

\* the i-th request of the page v reaches POST /api/chat; the response
\* is on its way
ServerChatStep(v, i) ==
    /\ listening /\ ~crashed
    /\ browsers[v].fetches[i].st = "requested"
    /\ LET f == browsers[v].fetches[i]
           s == apiChat(State, JsStr(f.text))
           res == s.http[Len(s.http)]
       IN  Commit([s EXCEPT
                     !.browsers[v].fetches[i] =
                         [@ EXCEPT !.st = "responded",
                                   !.status = res.status],
                     !.browsers[v].entries[f.entry].run =
                         res.idempotencyKey])

ServerChat ==
    \E v \in DOMAIN browsers :
        \E i \in DOMAIN browsers[v].fetches : ServerChatStep(v, i)

\* the response to the i-th request of the page v arrives
FetchDoneStep(v, i) ==
    /\ browsers[v].fetches[i].st = "responded"
    /\ LET f == browsers[v].fetches[i]
           b == [browsers[v] EXCEPT
                    !.fetches = SubSeq(@, 1, i - 1)
                                \o SubSeq(@, i + 1, Len(@))]
       IN  Commit([State EXCEPT !.browsers[v] = afterFetch(b, f.status)])

FetchDone ==
    \E v \in DOMAIN browsers :
        \E i \in DOMAIN browsers[v].fetches : FetchDoneStep(v, i)

\* the runs the gateway has been asked for on the socket c and has not
\* ended: a chat.send frame was written and no final or error event with
\* its key was broadcast
OpenRuns(c) ==
    {sent[i].params.idempotencyKey :
        i \in {j \in DOMAIN sent : /\ sent[j].conn = c
                                   /\ sent[j].method = "chat.send"}}
    \ {bcast[j].runId :
          j \in {k \in DOMAIN bcast :
                    bcast[k].type \in {"chat.final", "chat.error"}}}

\* the pending requests of the socket c for the method
PendingOf(c, method) ==
    {id \in socks[c].pending : promises[id].method = method}

\* a gateway that keeps to the protocol: one challenge on a connection,
\* hello-ok for the connect request, a response for each chat.send
GatewayHandshakes(c) ==
    (IF ConnectsOn(c) = {} THEN {Challenge(JsStr(<<"n1">>))} ELSE {})
    \cup {Res(id, TRUE, "hello-ok") : id \in PendingOf(c, "connect")}

GatewayHandshake ==
    \E c \in DOMAIN socks :
        \E msg \in GatewayHandshakes(c) : MessageStep(c, msg, MaxBrowserUuid)

GatewayAnswer ==
    \E c \in DOMAIN socks :
        \E id \in PendingOf(c, "chat.send"), ok \in BOOLEAN :
            MessageStep(c, Res(id, ok, "other"), MaxBrowserUuid)

\* a delta event of a run that has not ended
GatewayDelta ==
    \E c \in DOMAIN socks : \E r \in OpenRuns(c) :
        /\ Len(bcast) < MaxBrowserBcast
        /\ MessageStep(c, Chat(Payload(TRUE, "delta", r,
                                       MsgVal("string", <<"a">>, JsUndefined,
                                              FALSE, <<>>),
                                       JsUndefined, JsUndefined)),
                       MaxBrowserUuid)

\* the final or the error event of a run that has not ended
GatewayTerminal ==
    \E c \in DOMAIN socks : \E r \in OpenRuns(c) :
        \E st \in {"final", "error"} :
            MessageStep(c, Chat(Payload(TRUE, st, r,
                                       MsgVal("string", <<"z">>, JsUndefined,
                                              FALSE, <<>>),
                                       JsStr(<<"boom">>), JsUndefined)),
                       MaxBrowserUuid)

\* the gateway drops the connection
GatewayDrop ==
    \E c \in DOMAIN socks, code \in CloseCodes :
        Len(socks) <= MaxBrowserCloses /\ CloseStep(c, code)

NextViewers ==
    \/ Listen
    \/ GatewayOpen
    \/ GatewayHandshake
    \/ GatewayAnswer
    \/ GatewayDelta
    \/ GatewayTerminal
    \/ PageLoad
    \/ ViewerOpen
    \/ ViewerMessage
    \/ Send
    \/ ServerChat
    \/ FetchDone

\* the server, a gateway that keeps to the protocol and does not drop the
\* connection, and two pages whose sockets stay open
ViewersSpec == Init /\ [][NextViewers]_vars

OnePageLoad == PageLoadStep(MaxSendViewers)

OneSend == \E v \in DOMAIN browsers : SendStep(v, MaxSendSends)

NextSend ==
    \/ Listen
    \/ GatewayOpen
    \/ GatewayHandshake
    \/ GatewayAnswer
    \/ GatewayDelta
    \/ GatewayTerminal
    \/ GatewayDrop
    \/ ReconnectTimer
    \/ OnePageLoad
    \/ ViewerOpen
    \/ ViewerClose
    \/ ViewerTimer
    \/ ViewerMessage
    \/ OneSend
    \/ ServerChat
    \/ FetchDone

\* the server, a gateway that keeps to the protocol but may drop the
\* connection, and a page whose socket may close, through one send
SendSpec == Init /\ [][NextSend]_vars

\* timers fire, sockets open, requests are answered and events on their
\* way arrive; while it is connected the gateway completes the handshake,
\* answers each chat.send and ends each run. Nothing obliges a connection
\* to stay up.
SendLiveSpec ==
    /\ SendSpec
    /\ WF_vars(ReconnectTimer) /\ WF_vars(GatewayOpen)
    /\ WF_vars(GatewayHandshake) /\ WF_vars(GatewayAnswer)
    /\ WF_vars(GatewayTerminal)
    /\ WF_vars(ViewerOpen) /\ WF_vars(ViewerTimer)
    /\ WF_vars(ViewerMessage) /\ WF_vars(ServerChat) /\ WF_vars(FetchDone)

\* the raw public key of a key pair generated by an earlier process
OldKeyRaw == <<"pub", "old">>

\* what .openclaw-device.json may hold at the start: nothing, text that is
\* no JSON, JSON null, an object without privateKeyPem, an object with an
\* empty id, the record an earlier process wrote, and a record whose id is
\* not the digest of its public key
DeviceFiles ==
    {NoFile,
     DeviceFile(TRUE, FALSE, FALSE, JsUndefined, JsUndefined, JsUndefined),
     DeviceFile(TRUE, TRUE, FALSE, JsUndefined, JsUndefined, JsUndefined),
     DeviceFile(TRUE, TRUE, TRUE, JsStr(sha256Hex(OldKeyRaw)),
                JsStr(b64urlEncode(OldKeyRaw)), JsUndefined),
     DeviceFile(TRUE, TRUE, TRUE, JsStr(<<>>),
                JsStr(b64urlEncode(OldKeyRaw)), JsStr(<<"pem", "old">>)),
     DeviceFile(TRUE, TRUE, TRUE, JsStr(sha256Hex(OldKeyRaw)),
                JsStr(b64urlEncode(OldKeyRaw)), JsStr(<<"pem", "old">>)),
     DeviceFile(TRUE, TRUE, TRUE, JsStr(<<"my-device">>),
                JsStr(b64urlEncode(OldKeyRaw)), JsStr(<<"pem", "old">>))}

InitDevice ==
    /\ Boot
    /\ GATEWAY_TOKEN = <<"tokA">>
    /\ now = 7
    /\ deviceFile \in DeviceFiles
    /\ writable \in BOOLEAN
    /\ disk = <<>>

\* a challenge with a new nonce arrives on the socket c
DeviceChallenge ==
    \E c \in DOMAIN socks :
        MessageStep(c, Challenge(FreshNonce(c)), MaxDeviceUuid)

DeviceClose ==
    \E c \in DOMAIN socks, code \in CloseCodes :
        Len(socks) <= MaxDeviceCloses /\ CloseStep(c, code)

NextDevice ==
    \/ Listen
    \/ GatewayOpen
    \/ DeviceChallenge
    \/ DeviceClose
    \/ ReconnectTimer

\* a process started with each content of the device file, in a directory
\* that can or cannot be written: the handshake, a close and the reconnect
DeviceSpec == InitDevice /\ [][NextDevice]_vars

InitToken ==
    /\ Boot
    /\ GATEWAY_TOKEN \in Tokens
    /\ now = 7
    /\ deviceFile = NoFile
    /\ writable = TRUE
    /\ disk = <<>>

\* chat notifications of a run: a delta and an error
TokenPayloads ==
    {Payload(TRUE, "delta", 1,
             MsgVal("string", <<"a">>, JsUndefined, FALSE, <<>>),
             JsUndefined, JsUndefined),
     Payload(TRUE, "error", 1, NoMessage, JsStr(<<"boom">>), JsUndefined)}

\* the chat notification with the payload p arrives on the socket c, while
\* no more than MaxTokenBcast events have been broadcast
TokenNotifyStep(c, p) ==
    /\ Len(bcast) < MaxTokenBcast
    /\ MessageStep(c, Chat(p), MaxUuid)

\* the first socket closes; the reconnect timer is left pending
TokenClose ==
    \E code \in CloseCodes : Len(socks) = 1 /\ CloseStep(1, code)

\* the frames of the handshake and the responses
TokenMessage ==
    \E c \in DOMAIN socks :
        \E msg \in InboundRetry(c) : MessageStep(c, msg, MaxBackoffUuid)

TokenNotification ==
    \E c \in DOMAIN socks : \E p \in TokenPayloads : TokenNotifyStep(c, p)

\* one connection of the server under each configured token: the
\* handshake, the responses, chat notifications, POST /api/chat and the close
NextToken ==
    \/ Listen
    \/ GatewayOpen
    \/ TokenMessage
    \/ TokenNotification
    \/ TokenClose
    \/ ApiChat

TokenSpec == InitToken /\ [][NextToken]_vars

\* the bodies of the calls under KeySpec: blanks around the text, or none
KeyTexts == {JsStr(<<" ", "hi", " ">>), JsStr(<<"yo">>), JsStr(<<" ">>)}

\* POST /api/chat with the body {text}, up to MaxKeyCalls calls
KeyStep(text) ==
    /\ listening /\ ~crashed
    /\ Len(http) < MaxKeyCalls
    /\ uuid + 2 <= MaxKeyUuid
    /\ Len(refused) < MaxRefused
    /\ Commit(apiChat(State, text))

ApiChatKeys == \E text \in KeyTexts : KeyStep(text)

\* one connection and several calls of POST /api/chat
NextKeys ==
    \/ Listen
    \/ GatewayOpen
    \/ TokenMessage
    \/ TokenClose
    \/ ApiChatKeys

KeySpec == Init /\ [][NextKeys]_vars

\* the names of the files that change, and what is written to them
FileNames == {<<"a", ".WAV">>, <<"n", ".txt">>}
FileDatas == {<<"x">>, <<"y">>}

\* the directory after the file was written, and after it was removed
Removed(d, filename) == SelectSeq(d, LAMBDA f : f.name # filename)
Written(d, filename, data) ==
    Append(Removed(d, filename), [name |-> filename, data |-> data])

\* the directories the server may be started in
StartDisks ==
    {<<>>,
     <<[name |-> <<"b", ".mp3">>, data |-> <<"y">>],
       [name |-> <<"a", ".WAV">>, data |-> <<"x">>],
       [name |-> <<"n", ".txt">>, data |-> <<"y">>]>>}

InitAudio ==
    /\ Boot
    /\ GATEWAY_TOKEN = <<"tokA">>
    /\ now = 7
    /\ deviceFile = NoFile
    /\ writable = TRUE
    /\ disk \in StartDisks

\* the names whose content is followed: of the others only the report
Followed == {<<"a", ".WAV">>}

\* the file is written and fs.watch reports it
FileChangeStep(filename, data) ==
    /\ ~crashed
    /\ Commit(onWatch([State EXCEPT
                           !.disk = IF filename \in Followed
                                    THEN Written(disk, filename, data)
                                    ELSE @],
                      filename))

FileChange ==
    \E filename \in FileNames, data \in FileDatas :
        FileChangeStep(filename, data)

\* the file is removed and fs.watch reports it
FileDeleteStep(filename) ==
    /\ ~crashed
    /\ ~FileData(disk, filename).err
    /\ Commit(onWatch([State EXCEPT !.disk = Removed(disk, filename)],
                      filename))

FileDelete == \E filename \in Followed : FileDeleteStep(filename)

\* the debounce timer of the name fires
WatchTimerStep(filename) ==
    /\ ~crashed
    /\ filename \in watchDebounce
    /\ Len(reads) < MaxReads
    /\ Commit(onWatchTimer(State, filename))

WatchTimer == \E filename \in FileNames : WatchTimerStep(filename)

\* the i-th read in progress completes, with the bytes the file had when
\* the read began or with those it has now
ReadStep(i, early) ==
    LET r == reads[i]
        result == IF early THEN r.began ELSE FileData(disk, r.name)
    IN  /\ ~crashed
        /\ Len(bcast) < MaxAudioBcast
        /\ Commit(onReadFile(
               [State EXCEPT
                   !.reads = SubSeq(reads, 1, i - 1)
                                \o SubSeq(reads, i + 1, Len(reads)),
                   !.received = IF result.err THEN @
                                ELSE Bytes(result.data)],
               r.ext, result))

ReadDone == \E i \in DOMAIN reads : \E early \in BOOLEAN : ReadStep(i, early)

\* the uploads: none, one with its type, one without
Uploads ==
    {Upload(FALSE, "", <<>>), Upload(TRUE, "audio/ogg", <<"u">>),
     Upload(TRUE, "", <<>>)}

\* POST /api/speak with the upload
SpeakStep(file) ==
    /\ listening /\ ~crashed
    /\ Len(bcast) < MaxAudioBcast
    /\ Len(http) < MaxAudioCalls
    /\ Commit(apiSpeak([State EXCEPT
                            !.received = IF file.present
                                         THEN Bytes(file.buffer) ELSE @],
                       file))

ApiSpeak == \E file \in Uploads : SpeakStep(file)

\* GET /api/replay
ReplayStep ==
    /\ listening /\ ~crashed
    /\ Len(bcast) < MaxAudioBcast
    /\ Len(http) < MaxAudioCalls
    /\ Commit(apiReplay(State))

\* the audio side of the server: uploads, the watched directory, replay
NextAudio ==
    \/ Listen
    \/ FileChange
    \/ FileDelete
    \/ WatchTimer
    \/ ReadDone
    \/ ApiSpeak
    \/ ReplayStep

AudioSpec == InitAudio /\ [][NextAudio]_vars

\* ------------------------------------------------------------- claims
\* the frames written to the socket c
SentOn(c) == {i \in DOMAIN sent : sent[i].conn = c}

\* a string that has a character other than white space
NonBlank(v) ==
    v.t = "string" /\ \E i \in DOMAIN v.s : v.s[i] \notin {" ", "\t"}

\* the rejection reason is the close handler's
IsClosedError(e) ==
    e.message.t = "string" /\ e.message.s # <<>>
    /\ Head(e.message.s) = "gateway closed ("

\* the socket c is open and has had no challenge with a usable nonce yet
AwaitingChallenge(c) ==
    /\ gatewayWs = c
    /\ socks[c].readyState = OPEN
    /\ gatewayLastNonce = JsNull
    /\ ~gatewayReady

\* C1: a handled close event, in whatever state of the socket, rejects
\* every request still in that connection's registry with the
\* connection-closed error and leaves the registry empty; no request of a
\* closed connection is left unsettled.
C1_CloseRejectsAllPending ==
    /\ [](\A c \in DOMAIN socks :
            socks[c].readyState = CLOSED =>
                /\ socks[c].pending = {}
                /\ \A i \in SentOn(c) : promises[sent[i].id].outcome # <<>>)
    /\ [][\A c \in DOMAIN socks :
            (Live(c) /\ socks'[c].readyState = CLOSED) =>
                /\ socks'[c].pending = {}
                /\ \A id \in socks[c].pending :
                      /\ Len(promises'[id].outcome) = 1
                      /\ promises'[id].outcome[1].how = "reject"
                      /\ IsClosedError(promises'[id].outcome[1].value)]_vars

\* C1 witness: a connection closed while two of its requests were pending,
\* and both were rejected by the close
C1_Witness ==
    \E c \in DOMAIN socks :
        /\ socks[c].readyState = CLOSED
        /\ Cardinality({i \in SentOn(c) :
               LET o == promises[sent[i].id].outcome
               IN  Len(o) = 1 /\ o[1].how = "reject"
                   /\ IsClosedError(o[1].value)}) >= 2

\* C2: whatever res frames (duplicates, any order) and close events arrive,
\* each registered request id is resolved or rejected at most once.
C2_SettledAtMostOnce ==
    \A id \in DOMAIN promises : Len(promises[id].outcome) <= 1

\* C2 witness: a request was resolved by its res frame and its connection
\* closed afterwards
C2_Witness ==
    \E i \in DOMAIN sent :
        /\ socks[sent[i].conn].readyState = CLOSED
        /\ promises[sent[i].id].outcome # <<>>
        /\ promises[sent[i].id].outcome[1].how = "resolve"

\* C3: the ready flag is true only after, on the active connection, a
\* challenge was received, a connect request was sent for it and a success
\* response carrying that request's id arrived.
C3_ReadyOnlyAfterHandshake ==
    gatewayReady =>
        \E i \in ConnectsOn(gatewayWs) :
            LET o == promises[sent[i].id].outcome
            IN  o # <<>> /\ o[1].how = "resolve"

\* C4: a challenge with a usable nonce that arrives while the connection
\* is not awaiting its challenge is ignored: no request is sent, nothing is
\* registered and the recorded nonce stays.
C4_LaterChallengeIgnored ==
    [][\A c \in DOMAIN socks : \A n \in Nonces(c) :
          (NonBlank(n) /\ ~AwaitingChallenge(c)
             /\ MessageStep(c, Challenge(n), MaxUuid)) =>
                UNCHANGED <<sent, socks, promises, gatewayLastNonce>>]_vars

\* C5: a challenge with a non-blank string nonce n arriving on a connection
\* awaiting its challenge sends exactly one req frame, method connect, with
\* device nonce n, registered under the frame's id; a challenge whose nonce
\* is missing, not a string or blank sends and registers nothing.
C5_ChallengeSendsOneConnect ==
    [][\A c \in DOMAIN socks : \A n \in Nonces(c) :
          (AwaitingChallenge(c) /\ MessageStep(c, Challenge(n), MaxUuid)) =>
              IF NonBlank(n)
              THEN /\ Len(sent') = Len(sent) + 1
                   /\ SubSeq(sent', 1, Len(sent)) = sent
                   /\ LET f == sent'[Len(sent')]
                      IN  /\ f.method = "connect"
                          /\ f.conn = c
                          /\ f.params.nonce = n
                          /\ f.id \notin DOMAIN promises
                          /\ socks'[c].pending = socks[c].pending \cup {f.id}
                          /\ promises'[f.id].outcome = <<>>
              ELSE UNCHANGED <<sent, socks, promises>>]_vars

\* C5 witness: the one connect request of the active connection is pending
\* and carries the nonce of the challenge
C5_Witness ==
    /\ gatewayWs # 0
    /\ ~gatewayReady
    /\ Cardinality(ConnectsOn(gatewayWs)) = 1
    /\ \A i \in ConnectsOn(gatewayWs) :
          /\ sent[i].params.nonce = gatewayLastNonce
          /\ sent[i].id \in socks[gatewayWs].pending

\* C6: a call of the request helper for a method other than connect, made
\* while the connection is not ready, is refused at once with the
\* not-connected error, registers nothing and sends no frame.
C6_HelperRefusesUnlessReady ==
    [][\A method \in {"chat.send", "chat.history"} :
          (~gatewayReady /\ HelperStep(method)) =>
              /\ refused' = Append(refused, method)
              /\ UNCHANGED <<sent, socks, promises>>]_vars

\* a text that /api/chat accepts
ValidText(text) == NonBlank(text)

\* C7: POST /api/chat with valid text while the gateway is not ready is
\* answered 503 and changes nothing else: no frame is sent, nothing is
\* registered, no event is broadcast; and every chat.send frame and every
\* chat.error broadcast belongs to a call that was acknowledged.
C7_ChatRefusedWhileNotReady ==
    /\ [](/\ \A i \in DOMAIN sent :
               sent[i].method = "chat.send" =>
                   \E k \in DOMAIN http :
                       /\ http[k].status = 200
                       /\ http[k].idempotencyKey = sent[i].params.idempotencyKey
          /\ \A j \in DOMAIN bcast :
               \E k \in DOMAIN http :
                   /\ http[k].status = 200
                   /\ http[k].idempotencyKey = bcast[j].runId)
    /\ [][\A text \in Texts :
            (ValidText(text) /\ ~gatewayReady /\ ChatStep(text)) =>
                /\ http' = Append(http, [status |-> 503, idempotencyKey |-> 0])
                /\ UNCHANGED <<sent, socks, promises, bcast, uuid, timers,
                               refused, gatewayWs, gatewayReady>>]_vars

\* C7 witness: a call was answered 503
C7_Witness == \E k \in DOMAIN http : http[k].status = 503

\* C8: at most one gateway socket is live and at most one reconnect timer
\* is outstanding, never both; every earlier attempt is closed, with its
\* registry empty and its requests settled, before the next one exists.
C8_OneConnectionAtATime ==
    /\ Cardinality({c \in DOMAIN socks : Live(c)}) + Len(timers) <= 1
    /\ \A c \in DOMAIN socks :
          c < Len(socks) =>
              /\ socks[c].readyState = CLOSED
              /\ socks[c].pending = {}
              /\ \A i \in SentOn(c) : promises[sent[i].id].outcome # <<>>

\* C8 witness: a second attempt exists, and a request of the first was
\* rejected by its close
C8_Witness ==
    /\ Len(socks) >= 2
    /\ \E i \in SentOn(1) :
          LET o == promises[sent[i].id].outcome
          IN  o # <<>> /\ o[1].how = "reject" /\ IsClosedError(o[1].value)

\* C9: after the close of every attempt, however many have failed before,
\* the next attempt eventually begins.
C9_ReconnectNeverAbandoned ==
    \A n \in 1..MaxBackoffCloses :
        (Len(socks) = n /\ socks[n].readyState = CLOSED) ~> (Len(socks) > n)

\* C9 witness: an attempt that follows five closes in a row at least, the
\* delay being at its cap
C9_Witness ==
    /\ Len(socks) >= 6
    /\ Live(Len(socks))
    /\ gatewayBackoff = GATEWAY_BACKOFF_MAX

\* C10: the delay stays between the initial delay and the cap, and it
\* decreases only in a step that makes the connection ready, to the
\* initial delay.
C10_BackoffBounds ==
    /\ [](GATEWAY_BACKOFF_INITIAL <= gatewayBackoff
          /\ gatewayBackoff <= GATEWAY_BACKOFF_MAX)
    /\ [][gatewayBackoff' < gatewayBackoff =>
            /\ ~gatewayReady /\ gatewayReady'
            /\ gatewayBackoff' = GATEWAY_BACKOFF_INITIAL]_vars

\* C10 witness: a close waited the capped delay
C10_Witness ==
    /\ timers # <<>>
    /\ timers[1] = GATEWAY_BACKOFF_MAX
    /\ gatewayBackoff = GATEWAY_BACKOFF_MAX

\* C11: once a connect request was sent on the connection, a res frame
\* with ok:true and payload type hello-ok makes the connection ready; and
\* POST /api/chat with valid text, made after an earlier call was answered
\* 503 and while the connection is ready and its socket open, sends exactly
\* one chat.send frame and is acknowledged 200 with the key of that frame.
C11_HelloOkThenRetryAccepted ==
    [][/\ \A c \in DOMAIN socks : \A id \in ResIds :
             (ConnectsOn(c) # {}
                /\ MessageStep(c, Res(id, TRUE, "hello-ok"), MaxRetryUuid)) =>
                    gatewayReady'
       /\ \A text \in Texts :
             (/\ ValidText(text)
              /\ \E k \in DOMAIN http : http[k].status = 503
              /\ gatewayReady /\ gatewayWs # 0
              /\ socks[gatewayWs].readyState = OPEN
              /\ RetryStep(text)) =>
                 /\ Len(sent') = Len(sent) + 1
                 /\ SubSeq(sent', 1, Len(sent)) = sent
                 /\ LET f == sent'[Len(sent')]
                    IN  /\ f.method = "chat.send"
                        /\ f.conn = gatewayWs
                        /\ f.params.message = Trim(text.s)
                        /\ http' = Append(http,
                              [status |-> 200,
                               idempotencyKey |-> f.params.idempotencyKey])]_vars

\* C11 witness: the first call was answered 503, the connect request was
\* answered hello-ok, and the repeated call was acknowledged and its frame
\* sent
C11_Witness ==
    /\ Len(http) = 2
    /\ http[1].status = 503
    /\ http[2].status = 200
    /\ gatewayReady
    /\ \E i \in ConnectsOn(gatewayWs) :
          LET o == promises[sent[i].id].outcome
          IN  o # <<>> /\ o[1].how = "resolve"
    /\ Cardinality({i \in DOMAIN sent :
          /\ sent[i].method = "chat.send"
          /\ sent[i].params.idempotencyKey = http[2].idempotencyKey}) = 1

\* C12: a res frame with ok:false whose id is registered for a request
\* other than connect rejects the promise of that id with the frame's error
\* and removes it from the registry; every other promise stays as it was,
\* registered ones included, no socket changes its readyState, the ready
\* flag, the active socket and the delay are unchanged, and no reconnect
\* timer is set.
C12_FailureRejectsOnlyItsCaller ==
    [][\A c \in DOMAIN socks : \A id \in DOMAIN promises :
          \A ptype \in {"hello-ok", "other"} :
             (/\ id \in socks[c].pending
              /\ promises[id].method # "connect"
              /\ MessageStep(c, Res(id, FALSE, ptype), MaxUuid)) =>
                 /\ promises'[id].outcome =
                        <<[how |-> "reject", value |-> ResError]>>
                 /\ \A j \in DOMAIN promises \ {id} :
                        promises'[j] = promises[j]
                 /\ DOMAIN promises' = DOMAIN promises
                 /\ socks' = [socks EXCEPT ![c].pending = @ \ {id}]
                 /\ UNCHANGED <<gatewayReady, gatewayWs, gatewayBackoff,
                                timers, sent, crashed>>]_vars

\* C12 witness: a chat.send request was rejected by its failure response
\* while the connect request of the same socket is still registered and
\* unsettled, the socket open and the connection ready
C12_Witness ==
    \E i, j \in DOMAIN sent :
        /\ sent[i].method = "chat.send"
        /\ sent[j].method = "connect"
        /\ sent[i].conn = sent[j].conn
        /\ promises[sent[i].id].outcome =
               <<[how |-> "reject", value |-> ResError]>>
        /\ promises[sent[j].id].outcome = <<>>
        /\ sent[j].id \in socks[sent[j].conn].pending
        /\ socks[sent[j].conn].readyState = OPEN
        /\ gatewayReady
        /\ timers = <<>>

\* C13: a res frame with ok:false whose id is registered for a connect
\* request rejects that request and closes the socket it was sent on (an
\* open socket starts closing), does not set the ready flag and does not
\* end the process; a connect request once rejected is never resolved; and
\* the close event of such a socket sets one reconnect timer with the delay
\* current at that moment, leaves the connection not ready and does not end
\* the process.
C13_ConnectFailureClosesAndRetries ==
    /\ [](\A i \in DOMAIN sent :
            LET o == promises[sent[i].id].outcome
            IN  (sent[i].method = "connect" /\ o # <<>>
                   /\ o[1].how = "reject") => Len(o) = 1)
    /\ [][/\ \A c \in DOMAIN socks : \A id \in DOMAIN promises :
                \A ptype \in {"hello-ok", "other"} :
                   (/\ id \in socks[c].pending
                    /\ promises[id].method = "connect"
                    /\ MessageStep(c, Res(id, FALSE, ptype), MaxUuid)) =>
                       /\ promises'[id].outcome =
                              <<[how |-> "reject", value |-> ResError]>>
                       /\ socks'[c].readyState = CLOSING
                       /\ gatewayReady' = gatewayReady
                       /\ UNCHANGED <<timers, gatewayWs, gatewayBackoff>>
                       /\ ~crashed'
          /\ \A c \in DOMAIN socks : \A code \in CloseCodes :
                (/\ socks[c].readyState = CLOSING
                 /\ \E i \in ConnectsOn(c) :
                       promises[sent[i].id].outcome =
                          <<[how |-> "reject", value |-> ResError]>>
                 /\ CloseStep(c, code)) =>
                    /\ timers' = Append(timers, gatewayBackoff)
                    /\ socks'[c].readyState = CLOSED
                    /\ ~gatewayReady'
                    /\ ~crashed']_vars

\* C13 witness: the connect request of the first socket was rejected by its
\* failure response, the socket closed, and the reconnect timer holds the
\* delay that was current
C13_Witness ==
    /\ Len(socks) = 1
    /\ socks[1].readyState = CLOSED
    /\ \E i \in ConnectsOn(1) :
          promises[sent[i].id].outcome =
             <<[how |-> "reject", value |-> ResError]>>
    /\ timers = <<GATEWAY_BACKOFF_INITIAL>>
    /\ ~gatewayReady
    /\ ~crashed

\* C14: the client does not stay forever on an open socket awaiting its
\* challenge: from every state in which the active socket is open, no
\* challenge has been answered on it and the connection is not ready, a
\* state is eventually reached in which that no longer holds (a challenge
\* was answered, or the attempt was closed and C9 starts the next one).
C14_MissingChallengeTimesOut ==
    \A n \in 1..MaxBackoffCloses :
        (n \in DOMAIN socks /\ AwaitingChallenge(n) /\ ~crashed)
        ~> (n \in DOMAIN socks /\ (~AwaitingChallenge(n) \/ crashed))

\* the chat.send requests registered on the socket c
PendingChats(c) ==
    {id \in socks[c].pending : promises[id].method = "chat.send"}

\* C15: the close event of a socket rejects every chat.send request still
\* registered on it with the connection-closed error, and broadcasts for
\* each of them exactly one chat.error event whose runId is the
\* idempotencyKey that the caller's 200 acknowledgement carried and whose
\* error is the message of that rejection; the close broadcasts nothing else.
C15_PendingChatGetsOneError ==
    [][\A c \in DOMAIN socks : \A code \in CloseCodes :
          CloseStep(c, code) =>
             /\ Len(bcast') = Len(bcast) + Cardinality(PendingChats(c))
             /\ SubSeq(bcast', 1, Len(bcast)) = bcast
             /\ \A id \in PendingChats(c) :
                   LET key == sent[CHOOSE i \in DOMAIN sent : sent[i].id = id]
                                 .params.idempotencyKey
                   IN  /\ promises'[id].outcome =
                              <<[how |-> "reject",
                                 value |-> ClosedError(code)]>>
                       /\ \E k \in DOMAIN http :
                              http[k] = [status |-> 200,
                                         idempotencyKey |-> key]
                       /\ Cardinality(
                              {j \in (Len(bcast) + 1)..Len(bcast') :
                                  bcast'[j] =
                                     BMsg("chat.error", key, <<>>, "",
                                          ClosedError(code).message)}) = 1
                       /\ \A j \in DOMAIN bcast : bcast[j].runId # key]_vars

\* C15 witness: a chat.send request was rejected by the close of its
\* socket, and the one chat.error broadcast carries the acknowledged key
C15_Witness ==
    \E i \in DOMAIN sent :
        /\ sent[i].method = "chat.send"
        /\ socks[sent[i].conn].readyState = CLOSED
        /\ promises[sent[i].id].outcome # <<>>
        /\ IsClosedError(promises[sent[i].id].outcome[1].value)
        /\ \E k \in DOMAIN http :
               /\ http[k].status = 200
               /\ http[k].idempotencyKey = sent[i].params.idempotencyKey
               /\ Cardinality({j \in DOMAIN bcast :
                      /\ bcast[j].type = "chat.error"
                      /\ bcast[j].runId = http[k].idempotencyKey}) = 1

\* C16: a frame that is not JSON, or whose JSON is neither an event nor a
\* res message (null, a number, a string, an object of another type), is
\* discarded: handling it lets no exception escape and changes nothing of
\* the connection state, the registries, the delay or the broadcasts.
C16_MalformedFramesDiscarded ==
    [][\A c \in DOMAIN socks : \A msg \in Malformed :
          MessageStep(c, msg, MaxUuid) =>
             /\ ~crashed'
             /\ UNCHANGED <<gatewayWs, gatewayReady, gatewayBackoff,
                            gatewayLastNonce, socks, timers, promises, sent,
                            bcast>>]_vars

\* the number of events a chat notification is to produce
Emitted(p) ==
    IF ~p.obj THEN 0
    ELSE IF p.state = "delta"
         THEN IF extractTextFromMessage(p.message) # <<>> THEN 1 ELSE 0
    ELSE IF p.state \in {"final", "error", "aborted"} THEN 1
    ELSE 0

\* the type of the event a chat notification is to produce
EventType(p) ==
    IF p.state = "delta" THEN "chat.delta"
    ELSE IF p.state = "error" THEN "chat.error"
    ELSE "chat.final"

\* C17: the events are broadcast in the order of the notifications that
\* caused them: every chat notification leaves the events broadcast so far
\* in place and adds, after them, at most its own one event (none for a
\* delta without text), of its run, its type and its text; so n deltas with
\* text and a final give n chat.delta then one chat.final, nothing else.
C17_BroadcastInArrivalOrder ==
    [][\A c \in DOMAIN socks : \A p \in ChatPayloads :
          NotifyStep(c, p) =>
             /\ Len(bcast') = Len(bcast) + Emitted(p)
             /\ SubSeq(bcast', 1, Len(bcast)) = bcast
             /\ Emitted(p) = 1 =>
                   LET e == bcast'[Len(bcast')]
                   IN  /\ e.type = EventType(p)
                       /\ e.runId = p.runId
                       /\ p.state # "error" =>
                             e.text = extractTextFromMessage(p.message)]_vars

\* C17 witness: two deltas with different texts and a final of one run were
\* broadcast as chat.delta, chat.delta, chat.final done, in that order
C17_Witness ==
    bcast = <<BMsg("chat.delta", 1, <<"a">>, "", JsUndefined),
              BMsg("chat.delta", 1, <<"c", "d">>, "", JsUndefined),
              BMsg("chat.final", 1, <<"b">>, "done", JsUndefined)>>

\* C18: a chat notification with state delta whose extracted text is not
\* empty broadcasts exactly one chat.delta event with the payload's runId
\* and that text; one whose extracted text is empty broadcasts nothing.
C18_DeltaEmitsUnlessEmpty ==
    [][\A c \in DOMAIN socks : \A p \in ChatPayloads :
          (p.obj /\ p.state = "delta" /\ NotifyStep(c, p)) =>
             LET text == extractTextFromMessage(p.message)
             IN  IF text # <<>>
                 THEN bcast' = Append(bcast, BMsg("chat.delta", p.runId, text,
                                                  "", JsUndefined))
                 ELSE UNCHANGED bcast]_vars

\* C18 witness: a delta with text was broadcast
C18_Witness ==
    /\ Len(bcast) = 1
    /\ bcast[1].type = "chat.delta"
    /\ bcast[1].text = <<"c", "d">>
    /\ bcast[1].runId \in RunIds

\* C19: a chat notification with state final broadcasts exactly one
\* chat.final event with the runId, the extracted text (empty or not) and
\* state done; one with state aborted broadcasts exactly one chat.final
\* event with the runId, the extracted text and state aborted.
C19_FinalAndAbortedKeptApart ==
    [][\A c \in DOMAIN socks : \A p \in ChatPayloads :
          (p.obj /\ p.state \in {"final", "aborted"} /\ NotifyStep(c, p)) =>
             bcast' = Append(bcast,
                 BMsg("chat.final", p.runId,
                      extractTextFromMessage(p.message),
                      IF p.state = "final" THEN "done" ELSE "aborted",
                      JsUndefined))]_vars

\* C19 witness: a final without text and an aborted with text were
\* broadcast, tagged done and aborted
C19_Witness ==
    bcast = <<BMsg("chat.final", 1, <<>>, "done", JsUndefined),
              BMsg("chat.final", 1, <<"a">>, "aborted", JsUndefined)>>

\* a message field of an error notification that holds a message
Present(v) == v.t = "string" /\ v.s # <<>>

\* C20: a chat notification with state error broadcasts exactly one
\* chat.error event with the runId and, as its error, errorMessage if that
\* holds a message, else error if that holds one, else "chat error".
C20_ErrorEmitsOneChatError ==
    [][\A c \in DOMAIN socks : \A p \in ChatPayloads :
          (p.obj /\ p.state = "error" /\ NotifyStep(c, p)) =>
             bcast' = Append(bcast,
                 BMsg("chat.error", p.runId, <<>>, "",
                      IF Present(p.errorMessage) THEN p.errorMessage
                      ELSE IF Present(p.error) THEN p.error
                      ELSE JsStr(<<"chat error">>)))]_vars

\* C20 witness: the three kinds of error notification were broadcast: with
\* errorMessage, with error only, with neither
C20_Witness ==
    bcast = <<BMsg("chat.error", 1, <<>>, "", JsStr(<<"boom">>)),
              BMsg("chat.error", 1, <<>>, "", JsStr(<<"bad">>)),
              BMsg("chat.error", 1, <<>>, "", JsStr(<<"chat error">>))>>

\* the state with another token configured
WithToken(tok) == [State EXCEPT !.GATEWAY_TOKEN = tok]

\* the state of the program without the token and without the two fields
\* of the connect requests that are made from it (auth and the signature);
\* the logs the environment keeps are no part of it
Public(s) ==
    [s EXCEPT
        !.GATEWAY_TOKEN = <<>>,
        !.closesInARow = 0,
        !.notified = <<>>,
        !.sent = [i \in DOMAIN s.sent |->
                     IF s.sent[i].method = "connect"
                     THEN [s.sent[i] EXCEPT !.params.auth = JsUndefined,
                                            !.params.device.signature = <<>>]
                     ELSE s.sent[i]]]

\* C21: the token does not reach the browser: every handler, run from the
\* same state with any other token configured, leaves the same state
\* (broadcasts and HTTP responses included) but for the auth field and the
\* signature of the connect requests; so two runs fed the same requests and
\* frames broadcast and answer the same whatever the token. The connect
\* request carries the token as auth.
C21_TokenStaysServerSide ==
    /\ [](\A i \in DOMAIN sent :
            sent[i].method = "connect" =>
                sent[i].params.auth = IF GATEWAY_TOKEN # <<>>
                                      THEN JsStr(GATEWAY_TOKEN)
                                      ELSE JsUndefined)
    /\ [][/\ Listen =>
               \A tok \in Tokens :
                   Public(connectGateway(
                       [WithToken(tok) EXCEPT !.listening = TRUE]))
                      = Public(State')
          /\ \A c \in DOMAIN socks :
                /\ OpenStep(c) =>
                      \A tok \in Tokens :
                          Public(onOpen(WithToken(tok), c)) = Public(State')
                /\ \A msg \in InboundRetry(c) :
                      MessageStep(c, msg, MaxBackoffUuid) =>
                         \A tok \in Tokens :
                             Public(onMessage(WithToken(tok), c, msg))
                                = Public(State')
                /\ \A p \in TokenPayloads :
                      TokenNotifyStep(c, p) =>
                         \A tok \in Tokens :
                             Public(onMessage(WithToken(tok), c, Chat(p)))
                                = Public(State')
                /\ \A code \in CloseCodes :
                      CloseStep(c, code) =>
                         \A tok \in Tokens :
                             Public(onClose(WithToken(tok), c, code))
                                = Public(State')
          /\ \A text \in Texts :
                ChatStep(text) =>
                   \A tok \in Tokens :
                       Public(apiChat(WithToken(tok), text))
                          = Public(State')]_vars

\* C21 witness: with a token configured, a connect request carrying it was
\* sent, a call was acknowledged, and a gateway error event and the error of
\* the failed call were broadcast
C21_Witness ==
    /\ GATEWAY_TOKEN = <<"tokA">>
    /\ \E i \in DOMAIN sent :
          /\ sent[i].method = "connect"
          /\ sent[i].params.auth = JsStr(<<"tokA">>)
    /\ \E k \in DOMAIN http : http[k].status = 200
    /\ Len(bcast) >= 2

\* C22: the chat.send frame written for a call acknowledged with the key k
\* carries k as idempotencyKey, the configured session key, the trimmed
\* text as message and deliver false; every chat.send frame belongs to one
\* acknowledged call; and no two acknowledged calls have the same key.
C22_KeyForwardedUnchanged ==
    /\ [](/\ \A i \in DOMAIN sent :
               sent[i].method = "chat.send" =>
                   /\ sent[i].params.sessionKey = SESSION_KEY
                   /\ sent[i].params.deliver = FALSE
                   /\ Cardinality({k \in DOMAIN http :
                          /\ http[k].status = 200
                          /\ http[k].idempotencyKey =
                                 sent[i].params.idempotencyKey}) = 1
          /\ \A k1, k2 \in DOMAIN http :
               (k1 # k2 /\ http[k1].status = 200 /\ http[k2].status = 200)
                   => http[k1].idempotencyKey # http[k2].idempotencyKey)
    /\ [][\A text \in KeyTexts :
            (KeyStep(text) /\ Len(sent') > Len(sent)) =>
                /\ Len(sent') = Len(sent) + 1
                /\ Len(http') = Len(http) + 1
                /\ http'[Len(http')].status = 200
                /\ sent'[Len(sent')].method = "chat.send"
                /\ sent'[Len(sent')].params =
                      Params(JsUndefined, Trim(text.s),
                             http'[Len(http')].idempotencyKey, SESSION_KEY,
                             FALSE)
                /\ Trim(text.s) # <<>>
                /\ ~IsBlank(Head(Trim(text.s)))
                /\ ~IsBlank(Trim(text.s)[Len(Trim(text.s))])]_vars

\* C22 witness: two calls were acknowledged and their two frames carry the
\* two keys, the first with the text stripped of its blanks
C22_Witness ==
    /\ Len(http) = 2
    /\ http[1].status = 200 /\ http[2].status = 200
    /\ \E i, j \in DOMAIN sent :
          /\ i < j
          /\ sent[i].method = "chat.send" /\ sent[j].method = "chat.send"
          /\ sent[i].params.idempotencyKey = http[1].idempotencyKey
          /\ sent[j].params.idempotencyKey = http[2].idempotencyKey
          /\ sent[i].params.message = <<"hi">>

\* C23: GET /api/replay is answered 404, and broadcasts nothing, exactly
\* when the server has been handed no audio yet (no upload, no file read,
\* no file loaded at startup); otherwise it is answered 200 and broadcasts,
\* after the earlier events, one audio event with the bytes the server was
\* handed last, whatever the order of uploads, debounce timers and reads.
C23_ReplayGivesLatestAudio ==
    [][ReplayStep =>
          IF ~received.any
          THEN /\ http' = Append(http, [status |-> 404, idempotencyKey |-> 0])
               /\ bcast' = bcast
          ELSE /\ http' = Append(http, [status |-> 200, idempotencyKey |-> 0])
               /\ Len(bcast') = Len(bcast) + 1
               /\ SubSeq(bcast', 1, Len(bcast)) = bcast
               /\ bcast'[Len(bcast')].type = "audio"
               /\ bcast'[Len(bcast')].data = base64(received.data)]_vars

\* C23 witness: an upload was broadcast, then a changed file, and the
\* replay that followed broadcast the file again
C23_Witness ==
    /\ Len(bcast) = 3
    /\ bcast[1] = AudioMsg(base64(<<"u">>), "audio/ogg")
    /\ bcast[2] = AudioMsg(base64(<<"y">>), "audio/wav")
    /\ bcast[3] = bcast[2]
    /\ http = <<[status |-> 200, idempotencyKey |-> 0],
                [status |-> 200, idempotencyKey |-> 0]>>
    /\ received = Bytes(<<"y">>)

\* C24: each close waits the current delay and then sets the delay to
\* min(2 x delay, 30000); each step that makes the connection ready sets
\* the delay to 1000; hence the k-th close in a row with no step making
\* the connection ready in between waits min(1000 x 2^(k-1), 30000) ms.
C24_BackoffRule ==
    [][/\ \A c \in DOMAIN socks : \A code \in CloseCodes :
             CloseStep(c, code) =>
                 /\ timers' = Append(timers, gatewayBackoff)
                 /\ gatewayBackoff' =
                        Min(2 * gatewayBackoff, GATEWAY_BACKOFF_MAX)
                 /\ timers'[Len(timers')] =
                        Min(GATEWAY_BACKOFF_INITIAL * 2 ^ (closesInARow' - 1),
                            GATEWAY_BACKOFF_MAX)
       /\ (~gatewayReady /\ gatewayReady') =>
             gatewayBackoff' = GATEWAY_BACKOFF_INITIAL]_vars

\* C24 witness: two closes, then the connection was made ready, then three
\* closes more, the last of which waits 4000 ms
C24_Witness ==
    /\ Len(socks) = 5
    /\ closesInARow = 3
    /\ timers = <<4 * GATEWAY_BACKOFF_INITIAL>>
    /\ gatewayBackoff = 8 * GATEWAY_BACKOFF_INITIAL

\* C25: a res frame whose id is not in the pending registry of its socket
\* (an id never issued, or one already settled) changes nothing: the
\* registry, the promises, the ready flag, the delay and the socket stay as
\* they are, whatever the ok flag and the payload of the frame.
C25_UnknownResIsNoOp ==
    [][\A c \in DOMAIN socks : \A id \in ResIds : \A ok \in BOOLEAN :
          \A ptype \in {"hello-ok", "other"} :
              (id \notin socks[c].pending
                 /\ MessageStep(c, Res(id, ok, ptype), MaxUuid)) =>
                  UNCHANGED <<socks, promises, gatewayReady, gatewayBackoff,
                              gatewayWs, sent, timers>>]_vars

\* the states of a chat notification that are handled
HandledStates == {"delta", "final", "error", "aborted"}

\* C26: a chat notification whose payload is missing or no object, or whose
\* state is none of delta, final, error, aborted, broadcasts nothing, raises
\* no exception and leaves the connection and the registry as they are.
C26_UnhandledNotificationIgnored ==
    [][\A c \in DOMAIN socks : \A p \in ChatPayloads :
          ((~p.obj \/ p.state \notin HandledStates) /\ NotifyStep(c, p)) =>
              /\ ~crashed'
              /\ UNCHANGED <<bcast, socks, promises, gatewayWs, gatewayReady,
                             gatewayBackoff, gatewayLastNonce, sent, timers,
                             uuid, http>>]_vars

\* C26 witness: after a delta was broadcast, a notification with a state
\* that is not handled arrived, and the delta is still the only event
C26_Witness ==
    /\ notified = <<Payload(TRUE, "started", 1, NoMessage, JsUndefined,
                            JsUndefined)>>
    /\ Len(bcast) = 1
    /\ bcast[1].type = "chat.delta"
    /\ ~crashed

\* the text of a part, by the rule of C27
PartText(part) ==
    CASE part.t = "string" -> part.s
      [] part.t = "object" /\ part.text.t = "string" -> part.text.s
      [] part.t = "object" /\ part.text.t # "string"
            /\ part.value.t = "string" -> part.value.s
      [] OTHER -> <<>>

\* the texts of the first n parts, one after the other
RECURSIVE Concatenated(_, _)
Concatenated(parts, n) ==
    IF n = 0 THEN <<>>
    ELSE Concatenated(parts, n - 1) \o PartText(parts[n])

\* the text of a message, by the rule of C27
ReferenceText(message) ==
    CASE message.t = "string" -> message.s
      [] message.t = "object" /\ message.text.t = "string" -> message.text.s
      [] message.t = "object" /\ message.text.t # "string"
            /\ message.isArray ->
                Concatenated(message.parts, Len(message.parts))
      [] OTHER -> <<>>

\* C27: the text extracted from a message is the text of the rule, for
\* every shape of message: a string is returned as it is; an object with
\* a string text field yields that field, before any content list;
\* otherwise an object with a content list yields the texts of its parts
\* in order with nothing between them (a string part itself, or the string
\* text field of an object, else its string value field, else nothing);
\* everything else yields the empty string.
C27_ExtractionMatchesRule ==
    /\ notified # <<>> /\ notified[1].state \in {"final", "aborted"} =>
          /\ Len(bcast) = 1
          /\ bcast[1].text = ReferenceText(notified[1].message)
    /\ notified # <<>> /\ notified[1].state = "delta" =>
          IF ReferenceText(notified[1].message) = <<>>
          THEN bcast = <<>>
          ELSE /\ Len(bcast) = 1
               /\ bcast[1].text = ReferenceText(notified[1].message)

\* C27 witness: a final whose message has a number as text and a content
\* list of an object with text and value, a string, and an object with a
\* value only was broadcast with the three texts in order
C27_Witness ==
    /\ notified # <<>>
    /\ notified[1].state = "final"
    /\ notified[1].message =
          MsgVal("object", <<>>, JsNumber, TRUE,
                 <<Part("object", <<>>, JsStr(<<"c">>), JsStr(<<"v">>)),
                   Part("string", <<"d">>, JsUndefined, JsUndefined),
                   Part("object", <<>>, JsUndefined, JsStr(<<"v">>))>>)
    /\ Len(bcast) = 1
    /\ bcast[1].text = <<"c", "d", "v">>

\* the decimal string of a time
Decimal(time) ==
    CASE time = 7 -> <<"7">>
      [] time = 10 -> <<"1", "0">>
      [] time = 1700000000 ->
            <<"1", "7", "0", "0", "0", "0", "0", "0", "0", "0">>
      [] time = 1700000001 ->
            <<"1", "7", "0", "0", "0", "0", "0", "0", "0", "1">>

\* the signable string of the connect request sent[i], written out
Signable(i) ==
    LET d == sent[i].params.device
    IN  <<"v2", "|">> \o d.id.s
        \o <<"|", "gateway-client", "|", "backend", "|", "operator", "|",
              "operator.admin", ",", "operator.approvals", ",",
              "operator.pairing", "|">>
        \o Decimal(d.signedAt) \o <<"|">> \o GATEWAY_TOKEN \o <<"|">>
        \o d.nonce.s

\* the scopes in every order
ScopeOrders == {[i \in 1..3 |-> SCOPES[p[i]]] : p \in Permutations(1..3)}

Connects == {i \in DOMAIN sent : sent[i].method = "connect"}

\* C28: the string that is signed is the pipe-joined sequence of the
\* version tag, the device id, the client id, the client mode, the role,
\* the comma-joined scopes, the time of signing in decimal, the token
\* (empty if there is none) and the nonce; it is the same for the same
\* inputs, and another nonce, another time or another order of the scopes
\* alone gives another string.
C28_SignableString ==
    /\ \A i \in Connects :
          LET d == sent[i].params.device
              key == socks[sent[i].conn].device.privateKeyPem.s
          IN  /\ d.signature = b64urlEncode(sign(Signable(i), key))
              /\ signString(GATEWAY_TOKEN, socks[sent[i].conn].device, SCOPES,
                            d.nonce.s, d.signedAt) = Signable(i)
              /\ \A scopes \in ScopeOrders \ {SCOPES} :
                    signString(GATEWAY_TOKEN, socks[sent[i].conn].device,
                               scopes, d.nonce.s, d.signedAt) # Signable(i)
    /\ \A i, j \in Connects :
          LET a == sent[i].params.device
              b == sent[j].params.device
          IN  /\ (a.nonce = b.nonce /\ a.signedAt = b.signedAt) =>
                    a.signature = b.signature
              /\ (a.nonce # b.nonce /\ a.signedAt = b.signedAt) =>
                    a.signature # b.signature
              /\ (a.nonce = b.nonce /\ a.signedAt # b.signedAt) =>
                    a.signature # b.signature

\* C28 witness: with a token configured, the same nonce was signed at two
\* times, a millisecond apart, and the signatures differ
C28_Witness ==
    /\ GATEWAY_TOKEN # <<>>
    /\ Len(sent) = 2
    /\ Connects = {1, 2}
    /\ sent[1].params.device.nonce = sent[2].params.device.nonce
    /\ sent[1].params.device.signedAt = 1700000000
    /\ sent[2].params.device.signedAt = 1700000001
    /\ sent[1].params.device.signature # sent[2].params.device.signature

\* the bytes a base64url string stands for
b64urlDecode(str) == SubSeq(str, 2, Len(str) - 1)

\* id = digest(publicKey): the id is the SHA-256, in hex, of the raw public
\* key that publicKey encodes
IdIsDigest(device) ==
    /\ device.id.t = "string"
    /\ device.publicKey.t = "string"
    /\ device.publicKey.s = b64urlEncode(b64urlDecode(device.publicKey.s))
    /\ device.id.s = sha256Hex(b64urlDecode(device.publicKey.s))

\* C29: every identity load-or-create returns has as id the digest of its
\* public key, be it generated or loaded from the file; a record of the
\* file that has not, or that lacks a field, is not returned.
C29_IdentityIdIsDigest ==
    \A c \in DOMAIN socks : IdIsDigest(socks[c].device)

\* C30: the identity is the same for the whole life of the process: every
\* connect request, on the first connection and on every later one, carries
\* the same device id and public key and is signed with the same key, also
\* when the file was missing or invalid at first and could not be written.
C30_IdentityStable ==
    \A i, j \in Connects :
        /\ sent[i].params.device.id = sent[j].params.device.id
        /\ sent[i].params.device.publicKey = sent[j].params.device.publicKey
        /\ socks[sent[i].conn].device.privateKeyPem
              = socks[sent[j].conn].device.privateKeyPem

\* the chat.send frames written to a gateway socket with the key
ChatFrames(key) ==
    {i \in DOMAIN sent : /\ sent[i].method = "chat.send"
                         /\ sent[i].params.idempotencyKey = key}

\* C31: whenever POST /api/chat has acknowledged a call with ok:true,
\* exactly one chat.send frame with the key of that call has been written
\* to the gateway socket, also when the socket is closing: the client has
\* called close and the close event has not been handled yet.
C31_AckMeansFrameWritten ==
    \A k \in DOMAIN http :
        (http[k].status = 200 /\ http[k].idempotencyKey # 0) =>
            Cardinality(ChatFrames(http[k].idempotencyKey)) = 1

\* the controls of the page v are disabled: a send is under way
Sending(v) == v \in DOMAIN browsers /\ ~browsers[v].enabled

\* C32: every send ends: once sendChatMessage has disabled the controls
\* of a page, they are enabled again later, whatever the server and the
\* gateway do, also when the gateway connection drops after chat.send was
\* accepted and before the final or error event of the run, and when the
\* viewer socket of the page reconnects in between.
C32_SendEventuallyEnds ==
    \A v \in 1..MaxSendViewers : Sending(v) ~> ~Sending(v)

\* C33: an assistant entry is given only events of the run its own send
\* started: no delta, final or error event with another runId is appended
\* to it or finishes it, in any page.
C33_EntryGetsOnlyItsRun ==
    \A v \in DOMAIN browsers : \A n \in DOMAIN browsers[v].entries :
        LET e == browsers[v].entries[n]
        IN  \A i \in DOMAIN e.applied : e.applied[i] = e.run

====
